---------------------------- MODULE Spec2Model ----------------------------
(***************************************************************************)
(* Model of the Go bridge of opencode-bot: the keyed serializer            *)
(* (service.KeyedQueue), the backend client's RunPrompt, the session link  *)
(* service and the dispatcher BridgeService.HandleUpdate.                  *)
(*                                                                         *)
(* A task is one goroutine. In SpecKQ a task is one caller of              *)
(* KeyedQueue.Run with an opaque fn; in Spec a task is one invocation of   *)
(* HandleUpdate (webhook transport: one goroutine per HTTP request, each   *)
(* with its own request context).                                          *)
(***************************************************************************)
EXTENDS Integers, Sequences, FiniteSets, TLC

VARIABLES
    pc,         \* task -> position in the code
    key,        \* task -> key passed to KeyedQueue.Run ("" before the call)
    previous,   \* task -> local `previous` of Run (a channel, or Nil)
    next,       \* task -> local `next` of Run (a channel, or Nil)
    chains,     \* KeyedQueue.chains: key -> channel (Nil: no entry)
    closed,     \* the channels that have been closed
    mu,         \* KeyedQueue.mu: the task holding it, or Nil
    ctxDone,    \* task -> its context has been cancelled
    wake,       \* task parked in Run's select -> the case that woke it
    result,     \* task -> what Run returned ("none" until it returns)
    enq,        \* history: key -> tasks in the order they installed `next`
    fnOrder,    \* history: key -> tasks in the order their fn was invoked
    cancelledWaiting, \* history: tasks cancelled while waiting for a predecessor
    upd,        \* task -> the telegram.Update its HandleUpdate received
    allowedUsers,     \* table allowed_users
    admins,           \* table admins
    sessionLinks,     \* table session_links: key "chat:user" -> session id
    sessionModels,    \* table session_models: session id -> model
    defaultSessionID, \* SessionLinkService.defaultSessionID
    loc,        \* task -> locals of HandleUpdate and of its closure
    log,        \* history: task -> the side effects it performed, in order
    linkTouched,      \* history: tasks whose link another task wrote meanwhile
    rp,         \* SpecRP: one call of RunPrompt, its inputs and its result
    relay,       \* RelayService: its configuration, cache and position in Run
    poll,       \* the goroutine of API.PollUpdates and its history
    ts,         \* calls of normalizeUnixMillis and parseTimestamp, and their results
    stream,     \* the goroutine of Client.StreamEvents, its channels, Run's select
    wait        \* SpecWait: one call of waitForAssistantResponse and its typing task

kqVars == <<pc, key, previous, next, chains, closed, mu, ctxDone, wake, result,
            enq, fnOrder, cancelledWaiting>>

bridgeVars == <<upd, allowedUsers, admins, sessionLinks, sessionModels,
                defaultSessionID, loc, log, linkTouched>>

vars == <<kqVars, bridgeVars, rp, relay, poll, ts, stream, wait>>

\* Number of concurrent callers of KeyedQueue.Run in SpecKQ.
NumCalls == 3

Nil == 0

Calls == 1..NumCalls

Keys == {"10:1", "10:2"}

Tasks == DOMAIN pc

\* A channel made by `make(chan struct{})` is named after the task that made it.
Range(s) == {s[i] : i \in 1..Len(s)}

\* Positions of a task that is inside fn (between fn's invocation and its return).
FnPCs == {"fn", "fn_default", "fn_snapshot", "fn_model", "fn_runprompt",
          "fn_setsession", "fn_setmodel", "fn_ack", "w_snapshot", "w_state",
          "w_idle", "w_ctx", "fn_reply"}

InFn(p) == pc[p] \in FnPCs

\* fn of task p has been invoked / has returned
FnStarted(p) == key[p] \in DOMAIN fnOrder /\ p \in Range(fnOrder[key[p]])

FnReturned(p) == FnStarted(p) /\ ~InFn(p)

\* position of task p in sequence s (0 when absent)
IndexOf(s, p) == IF p \in Range(s) THEN CHOOSE i \in 1..Len(s) : s[i] = p ELSE 0

\* The task has called Run and Run has not yet returned.
InRun(p) == pc[p] \in {"run_lock", "run_install", "run_select", "run_parked",
                       "run_fn", "run_defer_close", "run_defer_lock",
                       "run_defer_delete"} \/ InFn(p)

\* Positions at which Run can still observe ctx.Done(); with an opaque fn a later
\* cancellation changes nothing Run does.
BeforeFn == {"run_lock", "run_install", "run_select", "run_parked"}

\* Tasks parked in the select of Run on channel c are readied by close(c); the
\* runtime commits a parked select to the first case that becomes ready.
WakeByClose(c) ==
    [q \in Tasks |-> IF pc[q] = "run_parked" /\ wake[q] = "none" /\ previous[q] = c
                     THEN "previous" ELSE wake[q]]

WakeByCancel(p) ==
    [q \in Tasks |-> IF q = p /\ pc[q] = "run_parked" /\ wake[q] = "none"
                     THEN "ctx" ELSE wake[q]]

----------------------------------------------------------------------------
(* KeyedQueue.Run *)

\* Tasks are interchangeable until they take the mutex for the first time: they
\* are numbered in the order in which they do (a task that has taken it has made
\* its channel before releasing it).
LockTurn(p) == \A q \in Tasks : q < p => next[q] # Nil

\* q.mu.Lock()
RunLock(p) ==
    /\ pc[p] = "run_lock"
    /\ mu = Nil
    /\ LockTurn(p)
    /\ mu' = p
    /\ pc' = [pc EXCEPT ![p] = "run_install"]
    /\ UNCHANGED <<key, previous, next, chains, closed, ctxDone, wake, result,
                   enq, fnOrder, cancelledWaiting,
                   bridgeVars, rp, relay, poll, ts, stream, wait>>

\* previous := q.chains[key]; next := make(chan struct{}); q.chains[key] = next;
\* q.mu.Unlock(); if previous != nil { select ... }
InstallNoWait(p) ==
    /\ pc[p] = "run_install"
    /\ mu = p
    /\ previous' = [previous EXCEPT ![p] = Nil]
    /\ next' = [next EXCEPT ![p] = p]
    /\ chains' = [chains EXCEPT ![key[p]] = p]
    /\ mu' = Nil
    /\ enq' = [enq EXCEPT ![key[p]] = Append(@, p)]
    /\ pc' = [pc EXCEPT ![p] = "run_fn"]
    /\ UNCHANGED <<key, closed, ctxDone, wake, result, fnOrder, cancelledWaiting,
                   bridgeVars, rp, relay, poll, ts, stream, wait>>

InstallFirstOnly(p) ==
    /\ pc[p] = "run_install"
    /\ mu = p
    /\ previous' = [previous EXCEPT ![p] = chains[key[p]]]
    /\ next' = [next EXCEPT ![p] = p]
    /\ chains' = IF chains[key[p]] = Nil THEN [chains EXCEPT ![key[p]] = p] ELSE chains
    /\ mu' = Nil
    /\ enq' = [enq EXCEPT ![key[p]] = Append(@, p)]
    /\ pc' = [pc EXCEPT ![p] = IF chains[key[p]] # Nil THEN "run_select" ELSE "run_fn"]
    /\ UNCHANGED <<key, closed, ctxDone, wake, result, fnOrder, cancelledWaiting,
                   bridgeVars, rp, relay, poll, ts, stream, wait>>

RunInstall(p) ==
    /\ pc[p] = "run_install"
    /\ mu = p
    /\ previous' = [previous EXCEPT ![p] = chains[key[p]]]
    /\ next' = [next EXCEPT ![p] = p]
    /\ chains' = [chains EXCEPT ![key[p]] = p]
    /\ mu' = Nil
    /\ enq' = [enq EXCEPT ![key[p]] = Append(@, p)]
    /\ pc' = [pc EXCEPT ![p] = IF chains[key[p]] # Nil THEN "run_select" ELSE "run_fn"]
    /\ UNCHANGED <<key, closed, ctxDone, wake, result, fnOrder, cancelledWaiting,
                   bridgeVars, rp, relay, poll, ts, stream, wait>>

\* select: case <-previous (ready because previous is closed)
RunSelectPrevious(p) ==
    /\ pc[p] = "run_select"
    /\ previous[p] \in closed
    /\ pc' = [pc EXCEPT ![p] = "run_fn"]
    /\ UNCHANGED <<key, previous, next, chains, closed, mu, ctxDone, wake, result,
                   enq, fnOrder, cancelledWaiting,
                   bridgeVars, rp, relay, poll, ts, stream, wait>>

\* select: case <-ctx.Done(): return ctx.Err()
RunSelectCtx(p) ==
    /\ pc[p] = "run_select"
    /\ ctxDone[p]
    /\ pc' = [pc EXCEPT ![p] = "returned"]
    /\ result' = [result EXCEPT ![p] = "canceled"]
    /\ UNCHANGED <<key, previous, next, chains, closed, mu, ctxDone, wake,
                   enq, fnOrder, cancelledWaiting,
                   bridgeVars, rp, relay, poll, ts, stream, wait>>

\* select with no case ready: the goroutine parks
RunSelectPark(p) ==
    /\ pc[p] = "run_select"
    /\ previous[p] \notin closed
    /\ ~ctxDone[p]
    /\ pc' = [pc EXCEPT ![p] = "run_parked"]
    /\ wake' = [wake EXCEPT ![p] = "none"]
    /\ UNCHANGED <<key, previous, next, chains, closed, mu, ctxDone, result,
                   enq, fnOrder, cancelledWaiting,
                   bridgeVars, rp, relay, poll, ts, stream, wait>>

\* the parked select resumes with the case that readied it
RunWakePrevious(p) ==
    /\ pc[p] = "run_parked"
    /\ wake[p] = "previous"
    /\ pc' = [pc EXCEPT ![p] = "run_fn"]
    /\ UNCHANGED <<key, previous, next, chains, closed, mu, ctxDone, wake, result,
                   enq, fnOrder, cancelledWaiting,
                   bridgeVars, rp, relay, poll, ts, stream, wait>>

RunWakeCtx(p) ==
    /\ pc[p] = "run_parked"
    /\ wake[p] = "ctx"
    /\ pc' = [pc EXCEPT ![p] = "returned"]
    /\ result' = [result EXCEPT ![p] = "canceled"]
    /\ UNCHANGED <<key, previous, next, chains, closed, mu, ctxDone, wake,
                   enq, fnOrder, cancelledWaiting,
                   bridgeVars, rp, relay, poll, ts, stream, wait>>

\* defer func() {...}() is registered and fn(ctx) is invoked
FnStart(p) ==
    /\ pc[p] = "run_fn"
    /\ pc' = [pc EXCEPT ![p] = "fn"]
    /\ fnOrder' = [fnOrder EXCEPT ![key[p]] = Append(@, p)]
    /\ UNCHANGED <<key, previous, next, chains, closed, mu, ctxDone, wake, result,
                   enq, cancelledWaiting,
                   bridgeVars, rp, relay, poll, ts, stream, wait>>

\* deferred: close(next)
RunDeferClose(p) ==
    /\ pc[p] = "run_defer_close"
    /\ closed' = closed \cup {next[p]}
    /\ wake' = WakeByClose(next[p])
    /\ pc' = [pc EXCEPT ![p] = "run_defer_lock"]
    /\ UNCHANGED <<key, previous, next, chains, mu, ctxDone, result,
                   enq, fnOrder, cancelledWaiting,
                   bridgeVars, rp, relay, poll, ts, stream, wait>>

\* deferred: q.mu.Lock()
RunDeferLock(p) ==
    /\ pc[p] = "run_defer_lock"
    /\ mu = Nil
    /\ mu' = p
    /\ pc' = [pc EXCEPT ![p] = "run_defer_delete"]
    /\ UNCHANGED <<key, previous, next, chains, closed, ctxDone, wake, result,
                   enq, fnOrder, cancelledWaiting,
                   bridgeVars, rp, relay, poll, ts, stream, wait>>

\* deferred: if q.chains[key] == next { delete(q.chains, key) }; q.mu.Unlock();
\* Run returns what fn returned
RunDeferDelete(p) ==
    /\ pc[p] = "run_defer_delete"
    /\ mu = p
    /\ chains' = IF chains[key[p]] = next[p] THEN [chains EXCEPT ![key[p]] = Nil]
                 ELSE chains
    /\ mu' = Nil
    /\ pc' = [pc EXCEPT ![p] = "returned"]
    /\ UNCHANGED <<key, previous, next, closed, ctxDone, wake, result,
                   enq, fnOrder, cancelledWaiting,
                   bridgeVars, rp, relay, poll, ts, stream, wait>>

\* The caller's context is cancelled (request aborted, shutdown signal).
CtxCancel(p) ==
    /\ InRun(p)
    /\ ~ctxDone[p]
    /\ ctxDone' = [ctxDone EXCEPT ![p] = TRUE]
    /\ wake' = WakeByCancel(p)
    /\ cancelledWaiting' =
         IF pc[p] \in {"run_select", "run_parked"} /\ previous[p] \notin closed
         THEN cancelledWaiting \cup {p} ELSE cancelledWaiting
    /\ UNCHANGED <<pc, key, previous, next, chains, closed, mu, result, enq, fnOrder,
                   bridgeVars, rp, relay, poll, ts, stream, wait>>

----------------------------------------------------------------------------
(* The callers of SpecKQ: Run with an opaque fn *)

\* a goroutine calls q.Run(ctx, k, fn)
CallRun(p, k) ==
    /\ pc[p] = "idle"
    /\ key' = [key EXCEPT ![p] = k]
    /\ pc' = [pc EXCEPT ![p] = "run_lock"]
    /\ UNCHANGED <<previous, next, chains, closed, mu, ctxDone, wake, result,
                   enq, fnOrder, cancelledWaiting,
                   bridgeVars, rp, relay, poll, ts, stream, wait>>

\* fn returns; Run will return fn's value ("fn") once the deferred function ran
FnReturn(p) ==
    /\ pc[p] = "fn"
    /\ result' = [result EXCEPT ![p] = "fn"]
    /\ pc' = [pc EXCEPT ![p] = "run_defer_close"]
    /\ UNCHANGED <<key, previous, next, chains, closed, mu, ctxDone, wake,
                   enq, fnOrder, cancelledWaiting,
                   bridgeVars, rp, relay, poll, ts, stream, wait>>


----------------------------------------------------------------------------
(* opencode.Client: request, CreateSession, RunPrompt *)

NoErr == ""

\* What the backend (or the transport) answers to one HTTP request.
PostResps == {"200", "404", "500", "500_body404", "401", "refused", "timeout", "canceled"}

CreateResps == {"200", "200_emptyid", "500", "canceled"}

\* Client.request: nil for a status below 400; a transport error; or
\* fmt.Errorf("%s (status %d)", body, status) for a status of 400 or more. An error
\* is named after what its text holds. "500_body404" is a 500 answer whose body
\* holds the words "status 404".
Request(done, resp) ==
    IF done \/ resp = "canceled" THEN "canceled"
    ELSE CASE resp = "200" -> NoErr
           [] resp = "404" -> "status404"
           [] resp = "500" -> "status500"
           [] resp = "500_body404" -> "status500_mentions404"
           [] resp = "401" -> "status401"
           [] resp = "refused" -> "refused"
           [] resp = "timeout" -> "timeout"

\* strings.Contains(err.Error(), "status 404")
ContainsStatus404(err) == err \in {"status404", "status500_mentions404"}

\* errors.Is(err, context.Canceled)
IsCanceled(err) == err = "canceled"

\* Client.CreateSession
CreateSession(done, resp, id) ==
    LET err == Request(done, IF resp = "200_emptyid" THEN "200" ELSE resp) IN
    IF err # NoErr THEN [id |-> "", err |-> err]
    ELSE IF resp = "200_emptyid" THEN [id |-> "", err |-> "emptyid"]
    ELSE [id |-> id, err |-> NoErr]

\* strings.TrimSpace on the session ids of the model
TrimSpace(s) ==
    CASE s = " ses_A " -> "ses_A"
      [] s = "  " -> ""
      [] OTHER -> s

\* One HTTP call RunPrompt made: the operation, the session it addressed and the
\* error it returned.
Call(op, sid, err) == <<op, sid, err>>

\* A stale-session branch that treats a 404 on the repeated POST as stale again.
RunPromptRecoverAgain(script, done, calls) ==
    LET c2 == CreateSession(done, script.create2, script.id2)
        callsC == Append(calls, Call("create", "", c2.err))
    IN  IF c2.err # NoErr THEN [sid |-> "", err |-> c2.err, calls |-> callsC]
        ELSE LET e2 == Request(done, script.post2)
                 callsP == Append(callsC, Call("post", c2.id, e2))
                 callsR == Append(Append(callsP, Call("create", "", NoErr)),
                                  Call("post", c2.id, e2))
             IN  IF e2 = NoErr THEN [sid |-> c2.id, err |-> NoErr, calls |-> callsP]
                 ELSE IF ContainsStatus404(e2)
                      THEN [sid |-> "", err |-> e2, calls |-> callsR]
                      ELSE [sid |-> "", err |-> e2, calls |-> callsP]

\* Client.RunPrompt's stale-session branch (lines 855-865), entered after the
\* message POST failed with a text containing "status 404".
RunPromptRecover(script, done, calls) ==
    LET c2 == CreateSession(done, script.create2, script.id2)
        callsC == Append(calls, Call("create", "", c2.err))
    IN  IF c2.err # NoErr THEN [sid |-> "", err |-> c2.err, calls |-> callsC]
        ELSE LET e2 == Request(done, script.post2)
                 callsP == Append(callsC, Call("post", c2.id, e2))
             IN  IF e2 # NoErr THEN [sid |-> "", err |-> e2, calls |-> callsP]
                 ELSE [sid |-> c2.id, err |-> NoErr, calls |-> callsP]

\* Client.RunPrompt from the message POST on (lines 845-868)
RunPromptPost(resolved, script, done, calls) ==
    LET e1 == Request(done, script.post1)
        callsP == Append(calls, Call("post", resolved, e1))
    IN  IF e1 = NoErr THEN [sid |-> resolved, err |-> NoErr, calls |-> callsP]
        ELSE IF ContainsStatus404(e1) THEN RunPromptRecover(script, done, callsP)
        ELSE [sid |-> "", err |-> e1, calls |-> callsP]

\* Client.RunPrompt(ctx, prompt, sessionID, model): the session id and error it
\* returns and the HTTP calls it made, given the answers of the backend (script)
\* and whether ctx is already cancelled (done). prompt and model only shape the
\* request body.
RunPrompt(sessionID, script, done) ==
    LET resolved == TrimSpace(sessionID) IN
    IF resolved = ""
    THEN LET c1 == CreateSession(done, script.create1, script.id1)
             callsC == <<Call("create", "", c1.err)>>
         IN  IF c1.err # NoErr THEN [sid |-> "", err |-> c1.err, calls |-> callsC]
             ELSE RunPromptPost(c1.id, script, done, callsC)
    ELSE RunPromptPost(resolved, script, done, <<>>)

\* The answers of the backend to the (at most) four requests of one RunPrompt;
\* id1 and id2 are the ids it hands out for the first and second POST /session.
Scripts(id1, id2) == [create1 : CreateResps, post1 : PostResps,
                      create2 : CreateResps, post2 : PostResps,
                      id1 : {id1}, id2 : {id2}]

\* The scripts that differ in an answer RunPrompt can ask for: an answer to a
\* request that is never made is fixed to "200".
RelevantScripts(sessionID, id1, id2) ==
    {s \in Scripts(id1, id2) :
        /\ TrimSpace(sessionID) # "" => s.create1 = "200"
        /\ s.create1 # "200" => s.post1 = "200"
        /\ s.post1 \notin {"404", "500_body404"} => s.create2 = "200"
        /\ s.create2 # "200" => s.post2 = "200"}

----------------------------------------------------------------------------
(* The dispatcher's data: updates, repositories, texts *)

\* Number of concurrent invocations of HandleUpdate in Spec.
NumHandlers == 2

Handlers == 1..NumHandlers

ChatID == 10

Users == {1, 2, 3}

\* fmt.Sprintf("%d:%d", message.Chat.ID, message.From.ID)
QueueKey(chat, user) == ToString(chat) \o ":" \o ToString(user)

NoLink == "<no row>"

NoModel == "<no row>"

\* ids the backend hands out to task h for its first and second POST /session
FreshID(h, n) == "ses_N" \o ToString(h) \o (IF n = 1 THEN "a" ELSE "b")

SessionIDs == {"ses_A", "ses_X", "ses_D"} \cup {FreshID(h, n) : h \in Handlers, n \in {1, 2}}

\* a pattern that every text matches
MatchesAnything(s) == TRUE

\* sessionIDPattern.MatchString: ^ses_[A-Za-z0-9]+$
MatchesSessionIDPattern(s) == s \in SessionIDs

\* The updates a task may receive: a prompt, "/session use <arg>", "/session new",
\* or a callback query with data "session_use:<arg>".
Updates ==
    [kind : {"prompt"}, user : Users, arg : {""}]
    \cup [kind : {"session_new"}, user : {1, 3}, arg : {""}]
    \cup [kind : {"session_use", "callback"}, user : {1}, arg : {"ses_X", "bad id"}]

NoUpdate == [kind |-> "none", user |-> 0, arg |-> ""]

MsgNoAutorizadoPrompt == "No autorizado. Pide acceso al admin con tu userId."

MsgNoAutorizado == "No autorizado."

MsgAck == "Procesando solicitud..."

MsgNoText == "OpenCode no devolvio texto en esta respuesta."

MsgUnavailable == "OpenCode no esta disponible. Revisa OPENCODE_SERVER_URL y que el servidor este corriendo."

MsgCredentials == "OpenCode rechazo credenciales. Revisa OPENCODE_SERVER_USERNAME y OPENCODE_SERVER_PASSWORD."

MsgTimeout == "OpenCode no respondio a tiempo. Revisa OPENCODE_TIMEOUT_MS o la carga del servidor."

MsgGeneric == "No se pudo enviar el mensaje a OpenCode."

\* userFacingOpenCodeError: the message chosen by the words of the error's text
UserFacingOpenCodeError(err) ==
    CASE err = "refused" -> MsgUnavailable
      [] err = "status401" -> MsgCredentials
      [] err \in {"timeout", "wait_timeout"} -> MsgTimeout
      [] OTHER -> MsgGeneric

\* SQLiteStore.IsAllowed: SELECT 1 FROM (allowed_users UNION admins) WHERE id = ?
IsAllowedAnyone(user) == TRUE

\* a lookup in allowed_users alone
IsAllowedListedOnly(user) == user \in allowedUsers

IsAllowed(user) == user \in (allowedUsers \cup admins)

\* What a repository call, a Telegram call returns: with a cancelled context the
\* call fails with the context's error; otherwise it succeeds or fails.
RepoErrs(done) == IF done THEN {"canceled"} ELSE {NoErr, "sqlerr"}

TelegramErrs(done) == IF done THEN {"canceled"} ELSE {NoErr, "tgerr"}

\* opencode.AssistantSnapshot values the backend may report
ZeroSnapshot == [Count |-> 0, Last |-> ""]

Snapshots == {ZeroSnapshot, [Count |-> 1, Last |-> "old"], [Count |-> 2, Last |-> "new"]}

\* what the session may hold before the prompt (the zero value also stands for a
\* failed read: the error is ignored)
PreviousSnapshots == {ZeroSnapshot, [Count |-> 1, Last |-> "old"]}

\* session states GetSessionState may report
SessionStates == {"busy", "idle", "error"}

\* isIdleState / isErrorState
IsIdleState(state) == state \in {"idle", "completed", "done", "ready"}

IsErrorState(state) == state \in {"error", "failed", "aborted"}

NoLocals == [sessionID |-> "", model |-> "", newSessionID |-> "",
             previousSnapshot |-> ZeroSnapshot, lastSnapshot |-> ZeroSnapshot,
             responseText |-> "", rpErr |-> "none", rpEnd |-> 0,
             denied |-> FALSE, linkAtReturn |-> "", adminText |-> "", via |-> ""]

Event(tag, arg) == <<tag, arg>>

Logged(h, events) == [log EXCEPT ![h] = @ \o events]

\* SessionLinkService.GetSession as a read: the persisted link, else the default
GetSessionValue(k) ==
    IF sessionLinks[k] # NoLink THEN sessionLinks[k] ELSE defaultSessionID

\* history: task h wrote the link of key k; every other task that is handling an
\* update of k has had its link written by someone else
TouchOthers(h, k) ==
    [q \in Tasks |-> linkTouched[q] \/ (q # h /\ key[q] = k /\ pc[q] # "done")]

kqState == <<previous, next, chains, closed, mu, wake, enq, fnOrder, cancelledWaiting>>

authz == <<allowedUsers, admins>>

\* the closure returns err: its locals are gone and the deferred function of Run
\* runs next
FnReturnsWith(h, err, locals) ==
    /\ pc' = [pc EXCEPT ![h] = "run_defer_close"]
    /\ result' = [result EXCEPT ![h] = err]
    /\ loc' = [loc EXCEPT ![h] = [locals EXCEPT !.model = "",
                                                !.previousSnapshot = ZeroSnapshot,
                                                !.lastSnapshot = ZeroSnapshot,
                                                !.responseText = "", !.via = ""]]

FnReturns(h, err) == FnReturnsWith(h, err, loc[h])

\* a key that leaves the sender out
KeyOfFirstUser(h) == QueueKey(ChatID, 1)

\* the (chat, sender) of the update of task h
MyKey(h) == QueueKey(ChatID, upd[h].user)

----------------------------------------------------------------------------
(* BridgeService.HandleUpdate: a prompt *)

\* lines 76-98, 169-186, 204-233: the update is routed by its shape
HandleUpdate(h, u) ==
    /\ pc[h] = "idle"
    /\ upd' = [upd EXCEPT ![h] = u]
    /\ IF u.kind = "callback" /\ ~MatchesSessionIDPattern(u.arg)
       THEN /\ pc' = [pc EXCEPT ![h] = "done"]
            /\ log' = Logged(h, <<Event("answer", "Sesion invalida")>>)
       ELSE /\ pc' = [pc EXCEPT ![h] =
                        CASE u.kind = "prompt" -> "hu_auth"
                          [] u.kind = "callback" -> "cb_auth"
                          [] u.kind \in {"allow", "deny", "list"} -> "ad_auth"
                          [] OTHER -> "hs_auth"]
            /\ log' = log
    /\ UNCHANGED <<key, ctxDone, result, kqState, authz, sessionLinks, sessionModels,
                   defaultSessionID, loc, linkTouched, rp, relay, poll, ts, stream, wait>>

\* lines 100-110: allowed, err := s.authzRepo.IsAllowed(...)
PromptAuth(h, err) ==
    /\ pc[h] = "hu_auth"
    /\ err \in RepoErrs(ctxDone[h])
    /\ IF err # NoErr
       THEN /\ pc' = [pc EXCEPT ![h] = "done"]
            /\ UNCHANGED <<key, loc, log>>
       ELSE IF ~IsAllowed(upd[h].user)
       THEN /\ pc' = [pc EXCEPT ![h] = "hu_deny"]
            /\ loc' = [loc EXCEPT ![h].denied = upd[h].user \notin (allowedUsers \cup admins)]
            /\ UNCHANGED <<key, log>>
       ELSE /\ pc' = [pc EXCEPT ![h] = "run_lock"]
            /\ key' = [key EXCEPT ![h] = MyKey(h)]
            /\ loc' = [loc EXCEPT ![h].denied = upd[h].user \notin (allowedUsers \cup admins)]
            /\ log' = Logged(h, <<Event("run", MyKey(h))>>)
    /\ UNCHANGED <<ctxDone, result, kqState, upd, authz, sessionLinks, sessionModels,
                   defaultSessionID, linkTouched, rp, relay, poll, ts, stream, wait>>

\* line 106: SendMessage("No autorizado. Pide acceso ..."); return
PromptDeny(h) ==
    /\ pc[h] = "hu_deny"
    /\ pc' = [pc EXCEPT ![h] = "done"]
    /\ log' = Logged(h, <<Event("send", MsgNoAutorizadoPrompt)>>)
    /\ UNCHANGED <<key, ctxDone, result, kqState, upd, authz, sessionLinks,
                   sessionModels, defaultSessionID, loc, linkTouched, rp, relay, poll, ts, stream, wait>>

\* line 112, SessionLinkService.GetSession lines 23-32: s.repo.GetSessionLink
FnGetSessionLink(h, err) ==
    /\ pc[h] = "fn"
    /\ err \in RepoErrs(ctxDone[h])
    /\ linkTouched' = [linkTouched EXCEPT ![h] = FALSE]
    /\ IF err # NoErr
       THEN FnReturns(h, err)
       ELSE /\ result' = result
            /\ IF sessionLinks[key[h]] # NoLink
               THEN /\ loc' = [loc EXCEPT ![h].sessionID = sessionLinks[key[h]]]
                    /\ pc' = [pc EXCEPT ![h] = "fn_snapshot"]
               ELSE IF defaultSessionID = ""
               THEN /\ loc' = [loc EXCEPT ![h].sessionID = ""]
                    /\ pc' = [pc EXCEPT ![h] = "fn_runprompt"]
               ELSE /\ loc' = loc
                    /\ pc' = [pc EXCEPT ![h] = "fn_default"]
    /\ UNCHANGED <<key, ctxDone, kqState, upd, authz, sessionLinks, sessionModels,
                   defaultSessionID, log, rp, relay, poll, ts, stream, wait>>

\* SessionLinkService.GetSession lines 33-36: s.repo.UpsertSessionLink(default)
FnUpsertDefault(h, err) ==
    /\ pc[h] = "fn_default"
    /\ err \in RepoErrs(ctxDone[h])
    /\ IF err # NoErr
       THEN /\ FnReturns(h, err)
            /\ UNCHANGED <<log, sessionLinks, linkTouched>>
       ELSE /\ result' = result
            /\ sessionLinks' = [sessionLinks EXCEPT ![key[h]] = defaultSessionID]
            /\ linkTouched' = TouchOthers(h, key[h])
            /\ loc' = [loc EXCEPT ![h].sessionID = defaultSessionID]
            /\ log' = Logged(h, <<Event("link", defaultSessionID)>>)
            /\ pc' = [pc EXCEPT ![h] = "fn_snapshot"]
    /\ UNCHANGED <<key, ctxDone, kqState, upd, authz, sessionModels,
                   defaultSessionID, rp, relay, poll, ts, stream, wait>>

\* lines 116-121: previousSnapshot, best effort (sessionID is not empty here)
FnSnapshot(h, snap) ==
    /\ pc[h] = "fn_snapshot"
    /\ snap \in IF ctxDone[h] THEN {ZeroSnapshot} ELSE PreviousSnapshots
    /\ loc' = [loc EXCEPT ![h].previousSnapshot = snap]
    /\ log' = Logged(h, <<Event("backend", "snapshot")>>)
    /\ pc' = [pc EXCEPT ![h] = "fn_model"]
    /\ UNCHANGED <<key, ctxDone, result, kqState, upd, authz, sessionLinks,
                   sessionModels, defaultSessionID, linkTouched, rp, relay, poll, ts, stream, wait>>

\* lines 122-131: s.models.GetSessionModel(ctx, sessionID)
FnGetModel(h, err) ==
    /\ pc[h] = "fn_model"
    /\ err \in RepoErrs(ctxDone[h])
    /\ IF err # NoErr
       THEN FnReturns(h, err)
       ELSE /\ result' = result
            /\ loc' = [loc EXCEPT ![h].model =
                         IF /\ loc[h].sessionID \in DOMAIN sessionModels
                            /\ sessionModels[loc[h].sessionID] # NoModel
                         THEN sessionModels[loc[h].sessionID] ELSE ""]
            /\ pc' = [pc EXCEPT ![h] = "fn_runprompt"]
    /\ UNCHANGED <<key, ctxDone, kqState, upd, authz, sessionLinks, sessionModels,
                   defaultSessionID, log, linkTouched, rp, relay, poll, ts, stream, wait>>

\* the events of the HTTP calls a RunPrompt made
CallEvents(calls) == [i \in 1..Len(calls) |-> Event("backend", calls[i][1])]

\* lines 132-145: newSessionID, err := s.opencode.RunPrompt(...)
FnRunPrompt(h, script) ==
    /\ pc[h] = "fn_runprompt"
    /\ LET r == RunPrompt(loc[h].sessionID, script, ctxDone[h])
           newLog == log[h] \o CallEvents(r.calls)
       IN  /\ log' = [log EXCEPT ![h] = newLog]
           /\ ctxDone' = [ctxDone EXCEPT ![h] = @ \/ IsCanceled(r.err)]
           /\ IF r.err # NoErr
              THEN FnReturnsWith(h, r.err, [loc[h] EXCEPT !.rpErr = r.err,
                                                          !.rpEnd = Len(newLog)])
              ELSE /\ result' = result
                   /\ loc' = [loc EXCEPT ![h].rpErr = NoErr, ![h].rpEnd = Len(newLog),
                                         ![h].newSessionID = r.sid]
                   /\ pc' = [pc EXCEPT ![h] =
                               IF r.sid # "" /\ r.sid # loc[h].sessionID
                               THEN "fn_setsession" ELSE "fn_ack"]
    /\ UNCHANGED <<key, kqState, upd, authz, sessionLinks, sessionModels,
                   defaultSessionID, linkTouched, rp, relay, poll, ts, stream, wait>>

\* a closure that acknowledges although the link could not be written
FnSetSessionIgnoringError(h, err) ==
    /\ pc[h] = "fn_setsession"
    /\ err \in RepoErrs(ctxDone[h])
    /\ result' = result
    /\ IF err # NoErr
       THEN /\ log' = Logged(h, <<Event("link_failed", loc[h].newSessionID)>>)
            /\ UNCHANGED <<sessionLinks, linkTouched>>
       ELSE /\ sessionLinks' = [sessionLinks EXCEPT ![key[h]] = loc[h].newSessionID]
            /\ linkTouched' = TouchOthers(h, key[h])
            /\ log' = Logged(h, <<Event("link", loc[h].newSessionID)>>)
    /\ pc' = [pc EXCEPT ![h] = IF loc[h].model # "" THEN "fn_setmodel" ELSE "fn_ack"]
    /\ UNCHANGED <<key, ctxDone, kqState, upd, authz, sessionModels,
                   defaultSessionID, loc, rp, relay, poll, ts, stream, wait>>

\* a closure that takes the new link as written without writing it
FnSetSessionNoWrite(h, err) ==
    /\ pc[h] = "fn_setsession"
    /\ err \in RepoErrs(ctxDone[h])
    /\ IF err # NoErr
       THEN /\ FnReturns(h, err)
            /\ log' = Logged(h, <<Event("link_failed", loc[h].newSessionID)>>)
       ELSE /\ UNCHANGED <<result, loc>>
            /\ log' = Logged(h, <<Event("link", loc[h].newSessionID)>>)
            /\ pc' = [pc EXCEPT ![h] =
                        IF loc[h].model # "" THEN "fn_setmodel" ELSE "fn_ack"]
    /\ UNCHANGED <<key, ctxDone, kqState, upd, authz, sessionLinks, sessionModels,
                   defaultSessionID, linkTouched, rp, relay, poll, ts, stream, wait>>

\* lines 136-139: s.sessions.SetSession(chat, user, newSessionID)
FnSetSession(h, err) ==
    /\ pc[h] = "fn_setsession"
    /\ err \in RepoErrs(ctxDone[h])
    /\ IF err # NoErr
       THEN /\ FnReturns(h, err)
            /\ log' = Logged(h, <<Event("link_failed", loc[h].newSessionID)>>)
            /\ UNCHANGED <<sessionLinks, linkTouched>>
       ELSE /\ UNCHANGED <<result, loc>>
            /\ sessionLinks' = [sessionLinks EXCEPT ![key[h]] = loc[h].newSessionID]
            /\ linkTouched' = TouchOthers(h, key[h])
            /\ log' = Logged(h, <<Event("link", loc[h].newSessionID)>>)
            /\ pc' = [pc EXCEPT ![h] =
                        IF loc[h].model # "" THEN "fn_setmodel" ELSE "fn_ack"]
    /\ UNCHANGED <<key, ctxDone, kqState, upd, authz, sessionModels,
                   defaultSessionID, rp, relay, poll, ts, stream, wait>>

\* a closure that leaves the override of the new session unwritten
FnSetModelNoWrite(h, err) ==
    /\ pc[h] = "fn_setmodel"
    /\ err \in RepoErrs(ctxDone[h])
    /\ IF err # NoErr
       THEN /\ FnReturns(h, err)
            /\ UNCHANGED log
       ELSE /\ UNCHANGED <<result, loc>>
            /\ log' = Logged(h, <<Event("model", loc[h].newSessionID)>>)
            /\ pc' = [pc EXCEPT ![h] = "fn_ack"]
    /\ UNCHANGED <<key, ctxDone, kqState, upd, authz, sessionLinks, sessionModels,
                   defaultSessionID, linkTouched, rp, relay, poll, ts, stream, wait>>

\* lines 140-144: s.models.UpsertSessionModel(ctx, newSessionID, model)
FnSetModel(h, err) ==
    /\ pc[h] = "fn_setmodel"
    /\ err \in RepoErrs(ctxDone[h])
    /\ IF err # NoErr
       THEN /\ FnReturns(h, err)
            /\ UNCHANGED <<sessionModels, log>>
       ELSE /\ UNCHANGED <<result, loc>>
            /\ sessionModels' = [sessionModels EXCEPT ![loc[h].newSessionID] = loc[h].model]
            /\ log' = Logged(h, <<Event("model", loc[h].newSessionID)>>)
            /\ pc' = [pc EXCEPT ![h] = "fn_ack"]
    /\ UNCHANGED <<key, ctxDone, kqState, upd, authz, sessionLinks,
                   defaultSessionID, linkTouched, rp, relay, poll, ts, stream, wait>>

\* lines 146-148: SendMessage("Procesando solicitud..."); then
\* waitForAssistantResponse lines 604-632 (the empty-id check, the typing action,
\* lastSnapshot := previous)
FnAck(h, err) ==
    /\ pc[h] = "fn_ack"
    /\ err \in TelegramErrs(ctxDone[h])
    /\ IF err # NoErr
       THEN /\ FnReturns(h, err)
            /\ log' = Logged(h, <<Event("send", MsgAck)>>)
       ELSE IF loc[h].newSessionID = ""
       THEN /\ FnReturns(h, "empty_session_id")
            /\ log' = Logged(h, <<Event("send", MsgAck)>>)
       ELSE /\ result' = result
            /\ loc' = [loc EXCEPT ![h].lastSnapshot = loc[h].previousSnapshot]
            /\ log' = Logged(h, <<Event("send", MsgAck), Event("action", "typing")>>)
            /\ pc' = [pc EXCEPT ![h] = "w_snapshot"]
    /\ UNCHANGED <<key, ctxDone, kqState, upd, authz, sessionLinks, sessionModels,
                   defaultSessionID, linkTouched, rp, relay, poll, ts, stream, wait>>

----------------------------------------------------------------------------
(* BridgeService.waitForAssistantResponse, the reply, the result of Run *)

\* the closure returns the text found by the waiter
Respond(h, snapshot, via) ==
    /\ loc' = [loc EXCEPT ![h].responseText = TrimSpace(snapshot.Last),
                          ![h].lastSnapshot = snapshot, ![h].via = via]
    /\ pc' = [pc EXCEPT ![h] = "fn_reply"]
    /\ result' = result

\* lines 634-643: now, snapErr := GetAssistantSnapshot(waitCtx, sessionID)
WaitSnapshot(h, ok, now) ==
    /\ pc[h] = "w_snapshot"
    /\ ok \in IF ctxDone[h] THEN {FALSE} ELSE BOOLEAN
    /\ now \in Snapshots
    /\ LET prev == loc[h].previousSnapshot IN
       IF ok /\ TrimSpace(now.Last) # ""
             /\ (now.Count > prev.Count \/ TrimSpace(now.Last) # TrimSpace(prev.Last))
       THEN Respond(h, now, "change")
       ELSE /\ loc' = [loc EXCEPT ![h].lastSnapshot = IF ok THEN now ELSE @]
            /\ pc' = [pc EXCEPT ![h] = "w_state"]
            /\ result' = result
    /\ UNCHANGED <<key, ctxDone, kqState, upd, authz, sessionLinks, sessionModels,
                   defaultSessionID, log, linkTouched, rp, relay, poll, ts, stream, wait>>

\* lines 645-655: state, stateErr := GetSessionState(waitCtx, sessionID)
WaitState(h, ok, state) ==
    /\ pc[h] = "w_state"
    /\ ok \in IF ctxDone[h] THEN {FALSE} ELSE BOOLEAN
    /\ state \in SessionStates
    /\ IF ok /\ IsErrorState(state)
       THEN IF TrimSpace(loc[h].lastSnapshot.Last) # ""
            THEN Respond(h, loc[h].lastSnapshot, "error")
            ELSE FnReturns(h, "error_state")
       ELSE /\ pc' = [pc EXCEPT ![h] = IF ok /\ IsIdleState(state) THEN "w_idle" ELSE "w_ctx"]
            /\ UNCHANGED <<loc, result>>
    /\ UNCHANGED <<key, ctxDone, kqState, upd, authz, sessionLinks, sessionModels,
                   defaultSessionID, log, linkTouched, rp, relay, poll, ts, stream, wait>>

\* lines 656-660: the snapshot read again once the session is idle
WaitIdleSnapshot(h, ok, snapshot) ==
    /\ pc[h] = "w_idle"
    /\ ok \in IF ctxDone[h] THEN {FALSE} ELSE BOOLEAN
    /\ snapshot \in Snapshots
    /\ IF ok /\ TrimSpace(snapshot.Last) # ""
       THEN Respond(h, snapshot, "idle")
       ELSE /\ pc' = [pc EXCEPT ![h] = "w_ctx"]
            /\ UNCHANGED <<loc, result>>
    /\ UNCHANGED <<key, ctxDone, kqState, upd, authz, sessionLinks, sessionModels,
                   defaultSessionID, log, linkTouched, rp, relay, poll, ts, stream, wait>>

\* lines 663-680: waitCtx.Err(), then the select on waitCtx.Done() and the
\* 2-second timer; the 5-minute deadline may or may not have passed
WaitCtx(h, deadline) ==
    /\ pc[h] = "w_ctx"
    /\ IF ctxDone[h] THEN FnReturns(h, "canceled")
       ELSE IF deadline THEN FnReturns(h, "wait_timeout")
       ELSE pc' = [pc EXCEPT ![h] = "w_snapshot"] /\ UNCHANGED <<result, loc>>
    /\ UNCHANGED <<key, ctxDone, kqState, upd, authz, sessionLinks, sessionModels,
                   defaultSessionID, log, linkTouched, rp, relay, poll, ts, stream, wait>>

\* lines 154-157: the reply (or the fallback text) is sent; its error is fn's
FnReply(h, err) ==
    /\ pc[h] = "fn_reply"
    /\ err \in TelegramErrs(ctxDone[h])
    /\ log' = Logged(h, <<Event("send", IF loc[h].responseText = ""
                                        THEN MsgNoText ELSE loc[h].responseText)>>)
    /\ FnReturns(h, err)
    /\ UNCHANGED <<key, ctxDone, kqState, upd, authz, sessionLinks, sessionModels,
                   defaultSessionID, linkTouched, rp, relay, poll, ts, stream, wait>>

\* a dispatcher that reports no failure to the user
HandleRunResultSilent(h) ==
    /\ pc[h] = "returned"
    /\ pc' = [pc EXCEPT ![h] = "done"]
    /\ loc' = [loc EXCEPT ![h].linkAtReturn = GetSessionValue(key[h])]
    /\ UNCHANGED <<key, ctxDone, result, kqState, upd, authz, sessionLinks,
                   sessionModels, defaultSessionID, log, linkTouched, rp, relay, poll, ts, stream, wait>>

\* lines 159-167: Run has returned err. A cancellation is only logged; any other
\* error is translated and sent to the user.
HandleRunResult(h) ==
    /\ pc[h] = "returned"
    /\ pc' = [pc EXCEPT ![h] = "done"]
    /\ loc' = [loc EXCEPT ![h].linkAtReturn = GetSessionValue(key[h])]
    /\ log' = IF result[h] = NoErr \/ IsCanceled(result[h]) THEN log
              ELSE Logged(h, <<Event("send", UserFacingOpenCodeError(result[h]))>>)
    /\ UNCHANGED <<key, ctxDone, result, kqState, upd, authz, sessionLinks,
                   sessionModels, defaultSessionID, linkTouched, rp, relay, poll, ts, stream, wait>>

----------------------------------------------------------------------------
(* BridgeService.handleSession ("use", "new") and handleCallbackQuery *)

\* requireAllowed (lines 485-496), then the validation of the argument
\* (line 401 for "/session use"); a callback also answers the query (line 190).
\* history: denied records whether the sender was in neither table at the check
CommandAuth(h, err) ==
    /\ pc[h] \in {"hs_auth", "cb_auth"}
    /\ err \in RepoErrs(ctxDone[h])
    /\ LET cb == pc[h] = "cb_auth"
           no == IF cb THEN <<Event("answer", "No autorizado")>> ELSE <<>>
       IN  IF err # NoErr
           THEN pc' = [pc EXCEPT ![h] = "done"] /\ log' = Logged(h, no)
           ELSE IF ~IsAllowed(upd[h].user)
           THEN /\ pc' = [pc EXCEPT ![h] = "done"]
                /\ log' = Logged(h, <<Event("send", MsgNoAutorizado)>> \o no)
           ELSE IF upd[h].kind = "session_use" /\ ~MatchesSessionIDPattern(upd[h].arg)
           THEN /\ pc' = [pc EXCEPT ![h] = "done"]
                /\ log' = Logged(h, <<Event("send", "Uso: /session use <ses_...>")>>)
           ELSE /\ pc' = [pc EXCEPT ![h] =
                            CASE cb -> "cb_set"
                              [] upd[h].kind = "session_use" -> "hs_set"
                              [] upd[h].kind = "session_show" -> "hs_get"
                              [] OTHER -> "hs_clear"]
                /\ log' = log
    /\ loc' = IF err # NoErr THEN loc
              ELSE [loc EXCEPT ![h].denied = upd[h].user \notin (allowedUsers \cup admins)]
    /\ UNCHANGED <<key, ctxDone, result, kqState, upd, authz, sessionLinks,
                   sessionModels, defaultSessionID, linkTouched, rp, relay, poll, ts, stream, wait>>

\* lines 405-410 ("/session use"), 391-397 ("/session new" with a default),
\* 194-201 (callback): s.sessions.SetSession and the confirmation
CommandSetSession(h, err) ==
    /\ pc[h] \in {"hs_set", "hs_default", "cb_set"}
    /\ err \in RepoErrs(ctxDone[h])
    /\ LET sid == IF pc[h] = "hs_default" THEN defaultSessionID ELSE upd[h].arg
           said == CASE pc[h] = "hs_default" -> <<Event("send", "Sesion reiniciada. Sesion default: " \o sid)>>
                     [] pc[h] = "hs_set" -> <<Event("send", "Sesion seleccionada: " \o sid)>>
                     [] OTHER -> <<Event("answer", "Sesion seleccionada"),
                                   Event("send", "Sesion seleccionada: " \o sid)>>
           failed == CASE pc[h] = "hs_default" -> Event("send", "Sesion reiniciada, pero no se pudo aplicar la sesion default.")
                       [] pc[h] = "hs_set" -> Event("send", "No se pudo cambiar la sesion.")
                       [] OTHER -> Event("answer", "No se pudo cambiar sesion")
       IN  IF err # NoErr
           THEN /\ log' = Logged(h, <<failed>>)
                /\ UNCHANGED <<sessionLinks, linkTouched>>
           ELSE /\ sessionLinks' = [sessionLinks EXCEPT ![MyKey(h)] = sid]
                /\ linkTouched' = TouchOthers(h, MyKey(h))
                /\ log' = Logged(h, <<Event("link", sid)>> \o said)
    /\ pc' = [pc EXCEPT ![h] = "done"]
    /\ UNCHANGED <<key, ctxDone, result, kqState, upd, authz, sessionModels,
                   defaultSessionID, loc, rp, relay, poll, ts, stream, wait>>

\* the reply of "/session" without arguments
MsgSesionActual(current) ==
    "Sesion actual: " \o current
        \o "\nUso: /session list | /session use <ses_...> | /session new"

\* lines 366-378 and GetSession lines 23-32: "/session" without arguments reads
\* the link; without a link and without a default the id is empty
CommandGetSession(h, err) ==
    /\ pc[h] = "hs_get"
    /\ err \in RepoErrs(ctxDone[h])
    /\ IF err # NoErr
       THEN /\ log' = Logged(h, <<Event("send", "No se pudo obtener la sesion actual.")>>)
            /\ pc' = [pc EXCEPT ![h] = "done"]
       ELSE IF sessionLinks[MyKey(h)] # NoLink
       THEN /\ log' = Logged(h, <<Event("send", MsgSesionActual(sessionLinks[MyKey(h)]))>>)
            /\ pc' = [pc EXCEPT ![h] = "done"]
       ELSE IF defaultSessionID = ""
       THEN /\ log' = Logged(h, <<Event("send", MsgSesionActual("(nueva en el proximo mensaje)"))>>)
            /\ pc' = [pc EXCEPT ![h] = "done"]
       ELSE /\ log' = log
            /\ pc' = [pc EXCEPT ![h] = "hs_getdefault"]
    /\ UNCHANGED <<key, ctxDone, result, kqState, upd, authz, sessionLinks, sessionModels,
                   defaultSessionID, loc, linkTouched, rp, relay, poll, ts, stream, wait>>

\* a GetSession that returns the default without storing it
CommandUpsertDefaultNoWrite(h, err) ==
    /\ pc[h] = "hs_getdefault"
    /\ err \in RepoErrs(ctxDone[h])
    /\ log' = Logged(h, <<Event("send", MsgSesionActual(defaultSessionID))>>)
    /\ pc' = [pc EXCEPT ![h] = "done"]
    /\ UNCHANGED <<key, ctxDone, result, kqState, upd, authz, sessionLinks, sessionModels,
                   defaultSessionID, loc, linkTouched, rp, relay, poll, ts, stream, wait>>

\* GetSession lines 33-36 and handleSession lines 368-376: the default is
\* upserted and returned
CommandUpsertDefault(h, err) ==
    /\ pc[h] = "hs_getdefault"
    /\ err \in RepoErrs(ctxDone[h])
    /\ IF err # NoErr
       THEN /\ log' = Logged(h, <<Event("send", "No se pudo obtener la sesion actual.")>>)
            /\ UNCHANGED <<sessionLinks, linkTouched>>
       ELSE /\ sessionLinks' = [sessionLinks EXCEPT ![MyKey(h)] = defaultSessionID]
            /\ linkTouched' = TouchOthers(h, MyKey(h))
            /\ log' = Logged(h, <<Event("link", defaultSessionID),
                                  Event("send", MsgSesionActual(defaultSessionID))>>)
    /\ pc' = [pc EXCEPT ![h] = "done"]
    /\ UNCHANGED <<key, ctxDone, result, kqState, upd, authz, sessionModels,
                   defaultSessionID, loc, rp, relay, poll, ts, stream, wait>>

\* a "/session new" that leaves the link in place
CommandClearSessionKeepsLink(h, err) ==
    /\ pc[h] = "hs_clear"
    /\ err \in RepoErrs(ctxDone[h])
    /\ IF err # NoErr
       THEN /\ log' = Logged(h, <<Event("send", "No se pudo reiniciar la sesion.")>>)
            /\ pc' = [pc EXCEPT ![h] = "done"]
       ELSE IF defaultSessionID # ""
       THEN /\ pc' = [pc EXCEPT ![h] = "hs_default"]
            /\ log' = Logged(h, <<Event("unlink", "")>>)
       ELSE /\ pc' = [pc EXCEPT ![h] = "done"]
            /\ log' = Logged(h, <<Event("unlink", ""),
                  Event("send", "Sesion reiniciada. El proximo mensaje creara una sesion nueva.")>>)
    /\ UNCHANGED <<key, ctxDone, result, kqState, upd, authz, sessionLinks, sessionModels,
                   defaultSessionID, loc, linkTouched, rp, relay, poll, ts, stream, wait>>

\* lines 384-399: s.sessions.ClearSession, then the default (if configured)
CommandClearSession(h, err) ==
    /\ pc[h] = "hs_clear"
    /\ err \in RepoErrs(ctxDone[h])
    /\ IF err # NoErr
       THEN /\ log' = Logged(h, <<Event("send", "No se pudo reiniciar la sesion.")>>)
            /\ pc' = [pc EXCEPT ![h] = "done"]
            /\ UNCHANGED <<sessionLinks, linkTouched>>
       ELSE /\ sessionLinks' = [sessionLinks EXCEPT ![MyKey(h)] = NoLink]
            /\ linkTouched' = TouchOthers(h, MyKey(h))
            /\ IF defaultSessionID # ""
               THEN /\ pc' = [pc EXCEPT ![h] = "hs_default"]
                    /\ log' = Logged(h, <<Event("unlink", "")>>)
               ELSE /\ pc' = [pc EXCEPT ![h] = "done"]
                    /\ log' = Logged(h, <<Event("unlink", ""),
                          Event("send", "Sesion reiniciada. El proximo mensaje creara una sesion nueva.")>>)
    /\ UNCHANGED <<key, ctxDone, result, kqState, upd, authz, sessionModels,
                   defaultSessionID, loc, rp, relay, poll, ts, stream, wait>>

----------------------------------------------------------------------------
(* The specifications *)

AllKeys == {QueueKey(ChatID, u) : u \in Users}

\* the state of the dispatcher before any update: user 1 is an admin only,
\* user 2 is in allowed_users only, user 3 is in neither table
IdleBridge(T) ==
    /\ upd = [p \in T |-> NoUpdate]
    /\ admins = {1}
    /\ allowedUsers = {2}
    /\ sessionLinks = [k \in AllKeys |-> NoLink]
    /\ sessionModels = [s \in SessionIDs |-> NoModel]
    /\ defaultSessionID = ""
    /\ loc = [p \in T |-> NoLocals]
    /\ log = [p \in T |-> <<>>]
    /\ linkTouched = [p \in T |-> FALSE]

IdleQueue(T) ==
    /\ pc = [p \in T |-> "idle"]
    /\ key = [p \in T |-> ""]
    /\ previous = [p \in T |-> Nil]
    /\ next = [p \in T |-> Nil]
    /\ chains = [k \in Keys |-> Nil]
    /\ closed = {}
    /\ mu = Nil
    /\ ctxDone = [p \in T |-> FALSE]
    /\ wake = [p \in T |-> "none"]
    /\ result = [p \in T |-> "none"]
    /\ enq = [k \in Keys |-> <<>>]
    /\ fnOrder = [k \in Keys |-> <<>>]
    /\ cancelledWaiting = {}

\* runServe without RELAY_SSE_ENABLED: no RelayService is started
NoRelay == [pc |-> "off"]

\* PollUpdates is not running (webhook transport)
NoPoll == [pc |-> "off"]

\* no event stream has been opened
NoStream == [pc |-> "off"]

\* no call of waitForAssistantResponse
NoWait == [pc |-> "off"]

\* no timestamp is being parsed
NoTime == [pc |-> "off"]

NoRunPrompt == [phase |-> "none", sessionID |-> "", done |-> FALSE,
                sid |-> "", err |-> NoErr, calls |-> <<>>]

\* SpecKQ: concurrent callers of KeyedQueue.Run with an opaque fn
InitKQ == IdleQueue(Calls) /\ IdleBridge(Calls) /\ rp = NoRunPrompt /\ relay = NoRelay /\ poll = NoPoll /\ ts = NoTime /\ stream = NoStream /\ wait = NoWait

NextKQ ==
    \E p \in Calls :
        \/ \E k \in Keys : CallRun(p, k)
        \/ RunLock(p)
        \/ RunInstall(p)
        \/ RunSelectPrevious(p)
        \/ RunSelectCtx(p)
        \/ RunSelectPark(p)
        \/ RunWakePrevious(p)
        \/ RunWakeCtx(p)
        \/ FnStart(p)
        \/ FnReturn(p)
        \/ RunDeferClose(p)
        \/ RunDeferLock(p)
        \/ RunDeferDelete(p)
        \/ (pc[p] \in BeforeFn /\ CtxCancel(p))

SpecKQ == InitKQ /\ [][NextKQ]_vars

\* the steps Run and fn take by themselves (a call of Run and a cancellation are
\* the environment's)
StepKQ(p) ==
    \/ RunLock(p)
    \/ RunInstall(p)
    \/ RunSelectPrevious(p)
    \/ RunSelectCtx(p)
    \/ RunSelectPark(p)
    \/ RunWakePrevious(p)
    \/ RunWakeCtx(p)
    \/ FnStart(p)
    \/ FnReturn(p)
    \/ RunDeferClose(p)
    \/ RunDeferLock(p)
    \/ RunDeferDelete(p)

\* SpecKQLive: SpecKQ where a goroutine that can run does run, the mutex is
\* granted to a goroutine waiting for it and every fn returns
SpecKQLive == SpecKQ /\ \A p \in Calls : WF_vars(StepKQ(p))

\* SpecRP: one call of Client.RunPrompt on a stored or an empty session id, with
\* a live or an already cancelled context, against every script of the backend
InitRP ==
    /\ IdleQueue(Calls) /\ IdleBridge(Calls) /\ relay = NoRelay /\ poll = NoPoll /\ ts = NoTime /\ stream = NoStream /\ wait = NoWait
    /\ rp \in [phase : {"called"}, sessionID : {"", "  ", "ses_A", " ses_A ", "ses_X"},
               done : BOOLEAN,
               sid : {""}, err : {NoErr}, calls : {<<>>}]

CallRunPrompt(script) ==
    /\ rp.phase = "called"
    /\ LET r == RunPrompt(rp.sessionID, script, rp.done) IN
       rp' = [rp EXCEPT !.phase = "returned", !.sid = r.sid, !.err = r.err,
                        !.calls = r.calls]
    /\ UNCHANGED <<kqVars, bridgeVars, relay, poll, ts, stream, wait>>

NextRP ==
    \E script \in RelevantScripts(rp.sessionID, "ses_N1", "ses_N2") : CallRunPrompt(script)

SpecRP == InitRP /\ [][NextRP]_vars

\* The scripts of Spec: every answer to the first message POST that the
\* dispatcher tells apart, a failing and a succeeding POST /session, a repeated
\* POST that succeeds or is stale again. (SpecRP runs RunPrompt on all scripts.)
BridgeScripts(sessionID, id1, id2) ==
    {s \in RelevantScripts(sessionID, id1, id2) :
        /\ s.create1 \in {"200", "500"}
        /\ s.post1 # "500_body404"
        /\ s.create2 \in {"200", "500"}
        /\ s.post2 \in {"200", "404"}}

\* The positions of Spec at which a request's context is cancelled: while Run
\* has not invoked the closure, when the closure starts, before the link is
\* written, before the acknowledgement and in the waiter. (During RunPrompt a
\* cancellation is an answer of the script.)
CancelPoints == BeforeFn \cup {"fn", "fn_setsession", "fn_ack", "w_ctx"}

\* What the database and the configuration hold at start: nothing; a link of
\* user 1 to ses_A with a model override; no link and a default session.
Stores == {[link |-> NoLink, model |-> NoModel, default |-> ""],
           [link |-> "ses_A", model |-> "m1", default |-> ""],
           [link |-> NoLink, model |-> NoModel, default |-> "ses_D"]}

\* Spec: concurrent invocations of HandleUpdate (webhook transport).
Init ==
    /\ IdleQueue(Handlers)
    /\ rp = NoRunPrompt
    /\ relay = NoRelay /\ poll = NoPoll /\ ts = NoTime /\ stream = NoStream /\ wait = NoWait
    /\ upd = [p \in Handlers |-> NoUpdate]
    /\ admins = {1}
    /\ allowedUsers = {2}
    /\ \E store \in Stores :
          /\ sessionLinks = [k \in AllKeys |->
                                IF k = QueueKey(ChatID, 1) THEN store.link ELSE NoLink]
          /\ sessionModels = [s \in SessionIDs |->
                                 IF s = "ses_A" THEN store.model ELSE NoModel]
          /\ defaultSessionID = store.default
    /\ loc = [p \in Handlers |-> NoLocals]
    /\ log = [p \in Handlers |-> <<>>]
    /\ linkTouched = [p \in Handlers |-> FALSE]

Next ==
    \E h \in Handlers :
        \/ \E u \in Updates : HandleUpdate(h, u)
        \/ \E err \in {NoErr, "sqlerr", "canceled"} :
              \/ PromptAuth(h, err)
              \/ FnGetSessionLink(h, err)
              \/ FnUpsertDefault(h, err)
              \/ FnGetModel(h, err)
              \/ FnSetSession(h, err)
              \/ FnSetModel(h, err)
              \/ CommandAuth(h, err)
              \/ CommandSetSession(h, err)
              \/ CommandClearSession(h, err)
        \/ PromptDeny(h)
        \/ RunLock(h)
        \/ RunInstall(h)
        \/ RunSelectPrevious(h)
        \/ RunSelectCtx(h)
        \/ RunSelectPark(h)
        \/ RunWakePrevious(h)
        \/ RunWakeCtx(h)
        \/ FnStart(h)
        \/ \E snap \in Snapshots : FnSnapshot(h, snap)
        \/ /\ pc[h] = "fn_runprompt"
           /\ \E script \in BridgeScripts(loc[h].sessionID, FreshID(h, 1), FreshID(h, 2)) :
                 FnRunPrompt(h, script)
        \/ \E err \in {NoErr, "tgerr", "canceled"} : FnAck(h, err) \/ FnReply(h, err)
        \/ \E ok \in BOOLEAN :
              \/ \E snap \in Snapshots : WaitSnapshot(h, ok, snap) \/ WaitIdleSnapshot(h, ok, snap)
              \/ \E state \in SessionStates : WaitState(h, ok, state)
        \/ \E deadline \in BOOLEAN : WaitCtx(h, deadline)
        \/ RunDeferClose(h)
        \/ RunDeferLock(h)
        \/ RunDeferDelete(h)
        \/ HandleRunResult(h)
        \/ (pc[h] \in CancelPoints /\ CtxCancel(h))

Spec == Init /\ [][Next]_vars

----------------------------------------------------------------------------
(* Properties of the keyed serializer (SpecKQ) *)

\* C1: calls of Run that share a key never have their fn bodies executing at the
\* same time, and the fn of a later-enqueued call is invoked only after the fn of
\* every earlier-enqueued call on that key has returned.
C1_SerializedPerKey ==
    /\ \A p, q \in Tasks : (p # q /\ key[p] = key[q]) => ~(InFn(p) /\ InFn(q))
    /\ \A k \in Keys : \A i, j \in 1..Len(enq[k]) :
          (i < j /\ FnStarted(enq[k][j])) => FnReturned(enq[k][i])

\* a later call on a key is inside fn after having waited for its predecessor,
\* whose fn has returned
C1_Witness ==
    \E p, q \in Tasks :
        /\ p # q /\ key[p] = key[q]
        /\ previous[q] = next[p] /\ next[p] # Nil
        /\ FnReturned(p) /\ InFn(q)

\* C2: on one key the fn bodies are invoked in the order in which the calls
\* installed their completion signal in q.chains.
C2_FifoPerKey ==
    \A k \in Keys : \A p, q \in Range(fnOrder[k]) :
        IndexOf(fnOrder[k], p) < IndexOf(fnOrder[k], q)
            => IndexOf(enq[k], p) < IndexOf(enq[k], q)

\* three calls enqueued on one key, at least two of them already executed
C2_Witness ==
    \E k \in Keys : Len(enq[k]) >= 3 /\ Len(fnOrder[k]) >= 2

\* C3 (as claimed): a call whose context is cancelled while it waits for its
\* predecessor never has its fn invoked and returns the context's error.
C3_CancelledWaiterNeverRuns ==
    \A p \in cancelledWaiting :
        /\ ~FnStarted(p)
        /\ pc[p] = "returned" => result[p] = "canceled"

\* C4 (as claimed): whenever no Run call for key k is in progress, q.chains has
\* no entry for k.
C4_KeyReleasedWhenIdle ==
    \A k \in Keys :
        (\A p \in Tasks : key[p] = k => ~InRun(p)) => chains[k] = Nil

\* C5 (as claimed): a call waits only on a call of its own key, and it waits only
\* while an earlier call on its key is still outstanding.
C5_WaitsOnlyOnOutstandingSameKey ==
    /\ \A p \in Tasks : previous[p] # Nil => key[previous[p]] = key[p]
    /\ \A p \in Tasks :
          (pc[p] \in {"run_select", "run_parked"} /\ previous[p] \notin closed)
            => \E q \in Tasks :
                 /\ key[q] = key[p] /\ InRun(q)
                 /\ IndexOf(enq[key[p]], q) # 0
                 /\ IndexOf(enq[key[p]], q) < IndexOf(enq[key[p]], p)

----------------------------------------------------------------------------
(* Properties of the dispatcher (Spec) and of RunPrompt (SpecRP) *)

\* the calls of SendMessage task h made with this text
Sends(h, text) == {i \in 1..Len(log[h]) : log[h][i] = Event("send", text)}

\* C6: a prompt of a user who is in neither table gets exactly one message, the
\* text "No autorizado. Pide acceso al admin con tu userId."; the update makes no
\* backend call, enqueues nothing on the keyed queue and writes no session link
\* and no model override.
C6_UnauthorizedPromptRejected ==
    \A h \in Tasks :
        (upd[h].kind = "prompt" /\ loc[h].denied) =>
            /\ pc[h] \in {"hu_deny", "done"}
            /\ key[h] = ""
            /\ \A k \in Keys : h \notin Range(enq[k]) /\ h \notin Range(fnOrder[k])
            /\ log[h] = IF pc[h] = "done"
                        THEN <<Event("send", MsgNoAutorizadoPrompt)>> ELSE <<>>

\* the prompt of user 3 has been refused while another prompt is in its closure
C6_Witness ==
    \E h, q \in Tasks :
        /\ upd[h].kind = "prompt" /\ loc[h].denied /\ pc[h] = "done"
        /\ InFn(q)

\* C7: when RunPrompt returned an id that differs from the loaded one, the link
\* has been written to that id before the acknowledgement is sent; once the
\* write of the link has failed, no acknowledgement is sent.
C7_LinkBeforeAck ==
    \A h \in Tasks :
        /\ \A i \in Sends(h, MsgAck) :
              loc[h].newSessionID # loc[h].sessionID =>
                  \E j \in 1..(i - 1) : log[h][j] = Event("link", loc[h].newSessionID)
        /\ (\E j \in 1..Len(log[h]) : log[h][j][1] = "link_failed") => Sends(h, MsgAck) = {}

\* a stale session was replaced and the acknowledgement sent; the write of the
\* link of another prompt has failed
C7_Witness ==
    /\ \E h \in Tasks :
          /\ Sends(h, MsgAck) # {}
          /\ loc[h].sessionID # "" /\ loc[h].newSessionID # loc[h].sessionID
    /\ \E h \in Tasks :
          /\ pc[h] = "done"
          /\ \E j \in 1..Len(log[h]) : log[h][j][1] = "link_failed"

\* the prompt of task h has completed without error
PromptCompleted(h) == upd[h].kind = "prompt" /\ pc[h] = "done" /\ result[h] = NoErr

\* C8 (as claimed): when a prompt has completed without error, GetSession
\* returns the id RunPrompt returned, whatever other updates ran meanwhile.
C8_WriteThroughAnyInterleaving ==
    \A h \in Tasks : PromptCompleted(h) => loc[h].linkAtReturn = loc[h].newSessionID

\* C8 (amended): when a prompt has completed without error and no other update
\* wrote the link of its (chatId, userId) between its load of the link and its
\* completion, GetSession returns the id RunPrompt returned.
C8_WriteThroughUnlessOverwritten ==
    \A h \in Tasks :
        (PromptCompleted(h) /\ ~linkTouched[h]) =>
            loc[h].linkAtReturn = loc[h].newSessionID

\* a prompt that got a new session completed undisturbed while another update
\* wrote a link
C8_Witness ==
    \E h, q \in Tasks :
        /\ PromptCompleted(h) /\ ~linkTouched[h]
        /\ loc[h].newSessionID # loc[h].sessionID
        /\ q # h /\ \E j \in 1..Len(log[q]) : log[q][j][1] = "link"

\* the message POSTs among the calls of one RunPrompt
Posts(calls) == {i \in 1..Len(calls) : calls[i][1] = "post"}

\* C9: one RunPrompt issues at most two message POSTs. After a first POST
\* answered 404 it creates exactly one session; if that succeeds it repeats the
\* POST once on the new session and returns the new id, or the error of the
\* repeated POST; nothing follows the repeated POST.
C9_RecoversStaleSessionOnce ==
    rp.phase = "returned" =>
        LET c == rp.calls
            P == Posts(c)
        IN  /\ Cardinality(P) <= 2
            /\ \A i \in P :
                  IF \E j \in P : j < i
                  THEN Len(c) = i
                  ELSE IF c[i][3] = "status404"
                  THEN /\ Len(c) \in {i + 1, i + 2}
                       /\ c[i + 1][1] = "create"
                       /\ (c[i + 1][3] = NoErr) <=> (Len(c) = i + 2)
                       /\ Len(c) = i + 1 => rp.err = c[i + 1][3]
                       /\ Len(c) = i + 2 =>
                             /\ c[i + 2][1] = "post"
                             /\ c[i + 2][2] \notin {c[i][2], ""}
                             /\ rp.err = c[i + 2][3]
                             /\ rp.err = NoErr => rp.sid = c[i + 2][2]
                  ELSE c[i][3] \notin {"status500_mentions404"} => Len(c) = i /\ rp.err = c[i][3]

\* the first POST and the repeated POST were both answered 404
C9_Witness ==
    /\ rp.phase = "returned"
    /\ Cardinality(Posts(rp.calls)) = 2
    /\ \A i \in Posts(rp.calls) : rp.calls[i][3] = "status404"

\* C10: after RunPrompt failed with an error that is not a cancellation, the
\* update makes no backend call and writes no link and no model; it sends no
\* acknowledgement and, when it is done, has sent exactly one message, the
\* translation of the error. (Before RunPrompt it wrote at most the default link.)
C10_RunPromptFailureReportedOnce ==
    \A h \in Tasks :
        (loc[h].rpErr \notin {"none", NoErr} /\ ~IsCanceled(loc[h].rpErr)) =>
            /\ SubSeq(log[h], loc[h].rpEnd + 1, Len(log[h]))
                 = IF pc[h] = "done"
                   THEN <<Event("send", UserFacingOpenCodeError(loc[h].rpErr))>>
                   ELSE <<>>
            /\ Sends(h, MsgAck) = {}
            /\ \A i \in 1..Len(log[h]) :
                  /\ log[h][i][1] # "model"
                  /\ log[h][i][1] = "link" => log[h][i][2] = defaultSessionID

\* a prompt whose RunPrompt was refused by the backend's credentials check is done
C10_Witness ==
    \E h \in Tasks : pc[h] = "done" /\ loc[h].rpErr = "status401"

----------------------------------------------------------------------------
(* BridgeService.handleAllow, handleDeny, handleList; SpecCmd *)

\* args[0] of "/allow" and "/deny" ("": the command came without an argument)
IDArgs == {"", "abc", "0", "1", "3"}

\* strconv.ParseInt(trimmed, 10, 64) on the arguments of the model (an argument
\* is a field of the text and holds no white space)
ParseInt(value) ==
    CASE value = "0" -> [n |-> 0, ok |-> TRUE]
      [] value = "1" -> [n |-> 1, ok |-> TRUE]
      [] value = "2" -> [n |-> 2, ok |-> TRUE]
      [] value = "3" -> [n |-> 3, ok |-> TRUE]
      [] OTHER -> [n |-> 0, ok |-> FALSE]

\* parseTelegramID: an id is a positive integer
ParseTelegramID(value) ==
    LET parsed == ParseInt(value) IN
    IF value = "" \/ ~parsed.ok \/ parsed.n <= 0
    THEN [id |-> 0, ok |-> FALSE]
    ELSE [id |-> parsed.n, ok |-> TRUE]

\* formatIDList on the sorted list that ListAdmins / ListAllowed return
RECURSIVE JoinIDs(_)
JoinIDs(ids) ==
    IF ids = {} THEN ""
    ELSE LET least == CHOOSE i \in ids : \A j \in ids : i <= j
             rest == ids \ {least}
         IN  ToString(least) \o (IF rest = {} THEN "" ELSE ", " \o JoinIDs(rest))

FormatIDList(ids) == IF ids = {} THEN "(none)" ELSE JoinIDs(ids)

MsgSoloAdmins == "Comando solo para admins."

\* the updates of SpecCmd: the admin commands, "/session use" and the callback
\* session_use, each from an admin (1), an allowed user (2) and a stranger (3)
CommandUpdates ==
    [kind : {"allow", "deny"}, user : Users, arg : IDArgs]
    \cup [kind : {"list"}, user : Users, arg : {""}]
    \cup [kind : {"session_use", "callback"}, user : Users, arg : {"ses_X", "bad id", "ses_"}]

\* requireAdmin that lets every allowed user pass
IsAdminOrAllowed(user) == IsAllowed(user)

\* SQLiteStore.IsAdmin: SELECT 1 FROM admins WHERE telegram_user_id = ?
IsAdmin(user) == user \in admins

\* requireAdmin (lines 498-509), then lines 515-523 / 536-544: the argument
AdminAuth(h, err) ==
    /\ pc[h] = "ad_auth"
    /\ err \in RepoErrs(ctxDone[h])
    /\ LET usage == "Uso: /" \o upd[h].kind \o " <telegramUserId>"
       IN  IF err # NoErr
           THEN pc' = [pc EXCEPT ![h] = "done"] /\ log' = log
           ELSE IF ~IsAdmin(upd[h].user)
           THEN /\ pc' = [pc EXCEPT ![h] = "done"]
                /\ log' = Logged(h, <<Event("send", MsgSoloAdmins)>>)
           ELSE IF upd[h].kind = "list"
           THEN pc' = [pc EXCEPT ![h] = "ad_list_admins"] /\ log' = log
           ELSE IF ~ParseTelegramID(upd[h].arg).ok
           THEN /\ pc' = [pc EXCEPT ![h] = "done"]
                /\ log' = Logged(h, <<Event("send", usage)>>)
           ELSE pc' = [pc EXCEPT ![h] = "ad_write"] /\ log' = log
    /\ UNCHANGED <<key, ctxDone, result, kqState, upd, authz, sessionLinks,
                   sessionModels, defaultSessionID, loc, linkTouched, rp, relay, poll, ts, stream, wait>>

\* lines 524-529: UpsertAllowed; lines 545-550: RemoveAllowed; the reply
AdminWrite(h, err) ==
    /\ pc[h] = "ad_write"
    /\ err \in RepoErrs(ctxDone[h])
    /\ LET userID == ParseTelegramID(upd[h].arg).id
           allow == upd[h].kind = "allow"
       IN  IF err # NoErr
           THEN /\ log' = Logged(h, <<Event("send", IF allow THEN "No se pudo agregar el usuario."
                                                     ELSE "No se pudo remover el usuario.")>>)
                /\ allowedUsers' = allowedUsers
           ELSE /\ allowedUsers' = IF allow THEN allowedUsers \cup {userID}
                                   ELSE allowedUsers \ {userID}
                /\ log' = Logged(h, <<Event(upd[h].kind, ToString(userID)),
                                      Event("send", (IF allow THEN "Usuario permitido: "
                                                     ELSE "Usuario removido: ") \o ToString(userID))>>)
    /\ pc' = [pc EXCEPT ![h] = "done"]
    /\ UNCHANGED <<key, ctxDone, result, kqState, upd, admins, sessionLinks,
                   sessionModels, defaultSessionID, loc, linkTouched, rp, relay, poll, ts, stream, wait>>

\* lines 557-562: s.authzRepo.ListAdmins
AdminListAdmins(h, err) ==
    /\ pc[h] = "ad_list_admins"
    /\ err \in RepoErrs(ctxDone[h])
    /\ IF err # NoErr
       THEN /\ pc' = [pc EXCEPT ![h] = "done"]
            /\ log' = Logged(h, <<Event("send", "No se pudo listar admins.")>>)
            /\ loc' = loc
       ELSE /\ pc' = [pc EXCEPT ![h] = "ad_list_allowed"]
            /\ loc' = [loc EXCEPT ![h].adminText = FormatIDList(admins)]
            /\ log' = log
    /\ UNCHANGED <<key, ctxDone, result, kqState, upd, authz, sessionLinks,
                   sessionModels, defaultSessionID, linkTouched, rp, relay, poll, ts, stream, wait>>

\* lines 563-574: s.authzRepo.ListAllowed and the text (its bullets are "*" here)
AdminListAllowed(h, err) ==
    /\ pc[h] = "ad_list_allowed"
    /\ err \in RepoErrs(ctxDone[h])
    /\ log' = Logged(h, <<Event("send",
                 IF err # NoErr THEN "No se pudo listar usuarios permitidos."
                 ELSE "Acceso\n* Admins: " \o loc[h].adminText
                      \o "\n* Allowed: " \o FormatIDList(allowedUsers))>>)
    /\ loc' = [loc EXCEPT ![h].adminText = ""]
    /\ pc' = [pc EXCEPT ![h] = "done"]
    /\ UNCHANGED <<key, ctxDone, result, kqState, upd, authz, sessionLinks,
                   sessionModels, defaultSessionID, linkTouched, rp, relay, poll, ts, stream, wait>>

\* SQLiteStore.SeedFromConfig on the tables the database already holds
SeedFromConfig(tables, adminIDs, allowedIDs) ==
    [admins |-> tables.admins \cup adminIDs, allowed |-> tables.allowed \cup allowedIDs]

\* the tables of a fresh database and of one used before; TELEGRAM admin and
\* allowed ids of the configuration
PersistedTables == {[admins |-> {}, allowed |-> {}], [admins |-> {}, allowed |-> {1, 2}]}

SeedConfigs == [adminIDs : {{1}}, allowedIDs : {{}, {2}}]

\* Number of concurrent invocations of HandleUpdate in SpecCmd.
NumCommands == 2

Commanders == 1..NumCommands

\* SpecCmd: concurrent commands after startup seeding; no session is linked
InitCmd ==
    /\ IdleQueue(Commanders)
    /\ rp = NoRunPrompt
    /\ relay = NoRelay /\ poll = NoPoll /\ ts = NoTime /\ stream = NoStream /\ wait = NoWait
    /\ upd = [p \in Commanders |-> NoUpdate]
    /\ \E tables \in PersistedTables, config \in SeedConfigs :
          LET seeded == SeedFromConfig(tables, config.adminIDs, config.allowedIDs)
          IN  admins = seeded.admins /\ allowedUsers = seeded.allowed
    /\ sessionLinks = [k \in AllKeys |-> NoLink]
    /\ sessionModels = [s \in SessionIDs |-> NoModel]
    /\ defaultSessionID = ""
    /\ loc = [p \in Commanders |-> NoLocals]
    /\ log = [p \in Commanders |-> <<>>]
    /\ linkTouched = [p \in Commanders |-> FALSE]

NextCmd ==
    \E h \in Commanders :
        \/ \E u \in CommandUpdates : HandleUpdate(h, u)
        \/ \E err \in {NoErr, "sqlerr"} :
              \/ AdminAuth(h, err)
              \/ AdminWrite(h, err)
              \/ AdminListAdmins(h, err)
              \/ AdminListAllowed(h, err)
              \/ CommandAuth(h, err)
              \/ CommandSetSession(h, err)

SpecCmd == InitCmd /\ [][NextCmd]_vars

----------------------------------------------------------------------------
(* Properties of the commands (SpecCmd) *)

\* the tags of the events that change persistent state
WriteTags == {"link", "unlink", "model", "allow", "deny"}

\* the events of task h that changed persistent state
Writes(h) == {i \in 1..Len(log[h]) : log[h][i][1] \in WriteTags}

\* C11: after startup seeding and any /allow and /deny commands, IsAllowed is
\* true for every id in admins, in allowed_users or not; a command of an admin
\* that asks requireAllowed is never refused, also after "/deny <admin id>".
C11_AdminsAreAllowed ==
    /\ \A u \in admins : IsAllowed(u)
    /\ \A h \in Tasks :
          (upd[h].user \in admins /\ upd[h].kind \in {"session_use", "callback"}) =>
              /\ ~loc[h].denied
              /\ Sends(h, MsgNoAutorizado) = {}

\* the id of admin 1 has been removed from allowed_users by /deny and a later
\* "/session use" of that admin has passed requireAllowed and set the link
C11_Witness ==
    \E h, q \in Tasks :
        /\ pc[h] = "done" /\ Event("deny", "1") \in Range(log[h])
        /\ 1 \in admins /\ 1 \notin allowedUsers
        /\ upd[q].user = 1 /\ upd[q].kind = "session_use"
        /\ Event("link", "ses_X") \in Range(log[q])

\* C12: /allow, /deny and /list from a sender who is not in admins change
\* neither table, list no ids and reply nothing but "Comando solo para admins.".
C12_AdminCommandsNeedAdmin ==
    \A h \in Tasks :
        (upd[h].kind \in {"allow", "deny", "list"} /\ upd[h].user \notin admins) =>
            /\ pc[h] \in {"ad_auth", "done"}
            /\ log[h] \in {<<>>, <<Event("send", MsgSoloAdmins)>>}

\* an allowed user who is no admin has sent "/deny 1" and got the refusal
C12_Witness ==
    \E h \in Tasks :
        /\ upd[h] = [kind |-> "deny", user |-> 2, arg |-> "1"]
        /\ 2 \in allowedUsers /\ 2 \notin admins
        /\ pc[h] = "done" /\ log[h] = <<Event("send", MsgSoloAdmins)>>

\* C18: a session id that does not match the pattern, given as callback data or
\* to "/session use", changes no session link, model override or authorization
\* entry; no link ever holds such an id.
C18_InvalidSessionIDRejected ==
    /\ \A h \in Tasks :
          (upd[h].kind \in {"session_use", "callback"} /\ upd[h].arg \notin SessionIDs)
              => Writes(h) = {}
    /\ \A k \in DOMAIN sessionLinks : sessionLinks[k] \in SessionIDs \cup {NoLink}

\* an allowed user's callback and an allowed user's "/session use" with ids
\* that do not match have been answered
C18_Witness ==
    \E h, q \in Tasks :
        /\ upd[h].kind = "callback" /\ upd[h].arg = "ses_" /\ upd[h].user \in allowedUsers
        /\ pc[h] = "done" /\ log[h] = <<Event("answer", "Sesion invalida")>>
        /\ upd[q].kind = "session_use" /\ upd[q].arg = "bad id" /\ upd[q].user \in admins
        /\ pc[q] = "done" /\ log[q] = <<Event("send", "Uso: /session use <ses_...>")>>

\* C19: a callback session_use:<valid id> writes a link only if its sender was
\* allowed when requireAllowed asked, and then writes once, the id it carries, to
\* the link of (chat, sender): every link held is one that a handler of that
\* (chat, sender) wrote.
C19_CallbackSetsOwnLinkIfAllowed ==
    /\ \A h \in Tasks :
          (upd[h].kind = "callback" /\ upd[h].arg \in SessionIDs) =>
              /\ loc[h].denied => Writes(h) = {}
              /\ \A i \in Writes(h) : log[h][i] = Event("link", upd[h].arg)
              /\ Cardinality(Writes(h)) <= 1
    /\ \A k \in DOMAIN sessionLinks :
          sessionLinks[k] # NoLink =>
              \E h \in Tasks : /\ k = QueueKey(ChatID, upd[h].user)
                               /\ Event("link", sessionLinks[k]) \in Range(log[h])

\* the callback of allowed user 2 has set the link of (10, 2); the callback of
\* user 3, who is not allowed, has been refused
C19_Witness ==
    \E h, q \in Tasks :
        /\ upd[h] = [kind |-> "callback", user |-> 2, arg |-> "ses_X"]
        /\ pc[h] = "done" /\ sessionLinks[QueueKey(ChatID, 2)] = "ses_X"
        /\ sessionLinks[QueueKey(ChatID, 1)] = NoLink
        /\ upd[q] = [kind |-> "callback", user |-> 3, arg |-> "ses_X"]
        /\ pc[q] = "done" /\ loc[q].denied

----------------------------------------------------------------------------
(* RelayService: Run, handleEvent, updateCache, onSessionIdle, dispatch *)

\* Number of stream events the relay receives in SpecRelay.
MaxRelayEvents == 3

RelaySessions == {"ses_A", "ses_X"}

NoEntry == [Text |-> "", Final |-> FALSE, ok |-> FALSE]

\* relayCacheEntry{Text, Final} found in the map
Entry(text, final) == [Text |-> text, Final |-> final, ok |-> TRUE]

\* opencode.Event values of the stream: assistant text (a draft, a final text,
\* blank text), idle notices, an event of another type, events without session
RelayEvents ==
    [Type : {"message.updated"}, SessionID : RelaySessions,
     Text : {"draft", "final text", "  "}, Final : BOOLEAN]
    \cup [Type : {"session.idle"}, SessionID : RelaySessions \cup {""}, Text : {""}, Final : {FALSE}]
    \cup {[Type |-> "message.updated", SessionID |-> "", Text |-> "draft", Final |-> TRUE],
          [Type |-> "message.updated", SessionID |-> "ses_A", Text |-> "", Final |-> TRUE],
          [Type |-> "session.status", SessionID |-> "ses_A", Text |-> "busy", Final |-> FALSE]}

\* strings.TrimSpace on the texts of the relay
TrimText(s) == IF s = "  " THEN "" ELSE s

\* what GetLastAssistantMessage may return (fetchFinalText trims it)
FetchedTexts == {"", "  ", "fetched"}

\* history: one step of the relay
RelayEvent(tag, a, b) == <<tag, a, b>>

RelayLogged(events) == relay.log \o events

\* SQLiteStore.FindRecipientsBySession: the (chat, user) rows linked to the session
Recipients(sessionID) ==
    {[ChatID |-> ChatID, UserID |-> u] :
        u \in {x \in Users : sessionLinks[QueueKey(ChatID, x)] = sessionID}}

\* the rows as a list (here: by user id)
RECURSIVE RecipientList(_)
RecipientList(rows) ==
    IF rows = {} THEN <<>>
    ELSE LET r == CHOOSE x \in rows : \A y \in rows : x.UserID <= y.UserID
         IN  <<r>> \o RecipientList(rows \ {r})

nonRelay == <<kqVars, bridgeVars, rp, poll, ts, stream, wait>>

\* the event has been handled: back in the select of Run
Handled(r) == [r EXCEPT !.pc = "recv", !.sid = "", !.text = "", !.todo = <<>>,
                        !.fired = FALSE, !.handled = TRUE]

\* dispatch lines 139-141: a blank text is not dispatched
Dispatch(r, text) ==
    IF TrimText(text) = "" THEN Handled(r)
    ELSE [r EXCEPT !.pc = "lookup", !.text = text]

\* an updateCache that keeps the entry it finds
UpdateCacheKeepFirst(r, event) ==
    IF TrimText(event.Text) = "" \/ r.cache[event.SessionID].ok THEN r
    ELSE [r EXCEPT !.cache[event.SessionID] = Entry(event.Text, event.Final)]

\* an updateCache that stores blank texts too
UpdateCacheStoresBlank(r, event) ==
    [r EXCEPT !.cache[event.SessionID] = Entry(event.Text, event.Final)]

\* updateCache lines 94-101
UpdateCache(r, event) ==
    IF TrimText(event.Text) = "" THEN r
    ELSE [r EXCEPT !.cache[event.SessionID] = Entry(event.Text, event.Final)]

\* handleEvent lines 81-92 on the event Run has received
Received(event) ==
    LET r == [relay EXCEPT !.n = @ + 1, !.handled = FALSE] IN
         IF event.SessionID = "" THEN r
         ELSE IF event.Type = "message.updated"
         THEN [UpdateCache(r, event) EXCEPT
                 !.updMark[event.SessionID] = Len(relay.log),
                 !.lastUpdate[event.SessionID] = event.Text,
                 !.lastNonBlank[event.SessionID] =
                     IF TrimText(event.Text) = "" THEN @ ELSE event.Text]
         ELSE IF event.Type = "session.idle"
         THEN [r EXCEPT !.pc = "idle", !.sid = event.SessionID,
                        !.idleStart = Len(relay.log), !.idleSid = event.SessionID,
                        !.hadEntry = relay.cache[event.SessionID],
                        !.log = RelayLogged(<<RelayEvent("idle", event.SessionID, "")>>)]
         ELSE r

\* Run lines 72-76: an event is received. (The select of Run may take an event
\* although the context is cancelled.)
RelayReceive(event) ==
    /\ relay.pc = "recv"
    /\ relay.n < MaxRelayEvents
    /\ relay' = Received(event)
    /\ UNCHANGED nonRelay

\* Run lines 63-64: the select takes ctx.Done()
RelayStop ==
    /\ relay.pc = "recv"
    /\ relay.done
    /\ relay' = [relay EXCEPT !.pc = "stopped"]
    /\ UNCHANGED nonRelay

\* the root context is cancelled; a relay parked in the fallback select returns
Cancelled ==
    LET r == [relay EXCEPT !.done = TRUE,
                  !.log = RelayLogged(<<RelayEvent("cancel", "", "")>>)]
    IN  IF relay.pc # "parked" THEN r
        ELSE Handled([r EXCEPT !.log = @ \o <<RelayEvent("ctxdone", relay.sid, "")>>])

RelayCancel ==
    /\ relay.pc \notin {"off", "stopped"}
    /\ ~relay.done
    /\ relay' = Cancelled
    /\ UNCHANGED nonRelay

\* an onSessionIdle that starts the fallback timer whatever the entry holds
OnSessionIdleAlwaysWaits ==
    /\ relay.pc = "idle"
    /\ LET entry == relay.cache[relay.sid] IN
       relay' =
         IF relay.mode = "last"
         THEN IF entry.Text = "" THEN [relay EXCEPT !.pc = "fetch"]
              ELSE Dispatch(relay, entry.Text)
         ELSE IF ~relay.fallback THEN Handled(relay)
         ELSE [relay EXCEPT !.pc = "timer",
                            !.log = RelayLogged(<<RelayEvent("timer", relay.sid, "")>>)]
    /\ UNCHANGED nonRelay

\* an onSessionIdle that ignores the fallback setting
OnSessionIdleAlwaysFallsBack ==
    /\ relay.pc = "idle"
    /\ LET entry == relay.cache[relay.sid] IN
       relay' =
         IF relay.mode = "last"
         THEN IF entry.Text = "" THEN [relay EXCEPT !.pc = "fetch"]
              ELSE Dispatch(relay, entry.Text)
         ELSE IF entry.ok /\ entry.Final /\ TrimText(entry.Text) # ""
         THEN Dispatch(relay, entry.Text)
         ELSE [relay EXCEPT !.pc = "timer",
                            !.log = RelayLogged(<<RelayEvent("timer", relay.sid, "")>>)]
    /\ UNCHANGED nonRelay

\* onSessionIdle lines 104-123: cachedText / cachedEntry, the mode, the timer
AfterIdle ==
    LET entry == relay.cache[relay.sid] IN
         IF relay.mode = "last"
         THEN IF entry.Text = "" THEN [relay EXCEPT !.pc = "fetch"]
              ELSE Dispatch(relay, entry.Text)
         ELSE IF entry.ok /\ entry.Final /\ TrimText(entry.Text) # ""
         THEN Dispatch(relay, entry.Text)
         ELSE IF ~relay.fallback THEN Handled(relay)
         ELSE [relay EXCEPT !.pc = "timer",
                            !.log = RelayLogged(<<RelayEvent("timer", relay.sid, "")>>)]

OnSessionIdle ==
    /\ relay.pc = "idle"
    /\ relay' = AfterIdle
    /\ UNCHANGED nonRelay

\* the fallback delay elapses
RelayTimerFires ==
    /\ relay.pc \in {"timer", "parked"}
    /\ ~relay.fired
    /\ relay' = IF relay.pc # "parked" THEN [relay EXCEPT !.fired = TRUE]
                ELSE [relay EXCEPT !.fired = TRUE, !.pc = "cached",
                         !.log = RelayLogged(<<RelayEvent("elapsed", relay.sid, "")>>)]
    /\ UNCHANGED nonRelay

\* onSessionIdle lines 125-129: the select on ctx.Done() and timer.C takes a
\* case that is ready, or parks
RelaySelect(case) ==
    /\ relay.pc = "timer"
    /\ case \in {"ctx", "timer", "park"}
    /\ CASE case = "ctx" ->
               /\ relay.done
               /\ relay' = Handled([relay EXCEPT
                               !.log = RelayLogged(<<RelayEvent("ctxdone", relay.sid, "")>>)])
         [] case = "timer" ->
               /\ relay.fired
               /\ relay' = [relay EXCEPT !.pc = "cached",
                               !.log = RelayLogged(<<RelayEvent("elapsed", relay.sid, "")>>)]
         [] OTHER -> ~relay.done /\ ~relay.fired /\ relay' = [relay EXCEPT !.pc = "parked"]
    /\ UNCHANGED nonRelay

\* a fallback that asks the backend whatever the cache holds
RelayCachedTextFetches ==
    /\ relay.pc = "cached"
    /\ relay' = [relay EXCEPT !.pc = "fetch"]
    /\ UNCHANGED nonRelay

\* onSessionIdle lines 131-135: cachedText after the delay
AfterDelay ==
    LET text == relay.cache[relay.sid].Text IN
    IF text = "" THEN [relay EXCEPT !.pc = "fetch"] ELSE Dispatch(relay, text)

RelayCachedText ==
    /\ relay.pc = "cached"
    /\ relay' = AfterDelay
    /\ UNCHANGED nonRelay

\* fetchFinalText lines 172-180: GetLastAssistantMessage, trimmed; "" on error
RelayFetch(ok, text) ==
    /\ relay.pc = "fetch"
    /\ ok \in IF relay.done THEN {FALSE} ELSE BOOLEAN
    /\ text \in FetchedTexts
    /\ LET fetched == IF ok THEN TrimText(text) ELSE ""
           r == [relay EXCEPT !.log = RelayLogged(<<RelayEvent("fetch", relay.sid, fetched)>>)]
       IN  relay' = Dispatch(r, fetched)
    /\ UNCHANGED nonRelay

\* dispatch lines 142-146: FindRecipientsBySession
RelayLookup(err) ==
    /\ relay.pc = "lookup"
    /\ err \in RepoErrs(relay.done)
    /\ LET r == [relay EXCEPT !.log = RelayLogged(<<RelayEvent("lookup", relay.sid, err)>>)]
       IN  relay' = IF err # NoErr THEN Handled(r)
                    ELSE [r EXCEPT !.pc = "send",
                                   !.todo = RecipientList(Recipients(relay.sid))]
    /\ UNCHANGED nonRelay

\* the steps of one SendMessage call: the call, and its failure if it fails
SendSteps(chat, text, err) ==
    <<RelayEvent("send", chat, text)>>
        \o IF err = NoErr THEN <<>> ELSE <<RelayEvent("send_failed", chat, err)>>

\* a dispatch that gives up at the first send that fails
RelaySendStopsOnError(err) ==
    /\ relay.pc = "send"
    /\ relay.todo # <<>>
    /\ err \in TelegramErrs(relay.done)
    /\ LET r == [relay EXCEPT !.todo = Tail(@),
                     !.log = RelayLogged(SendSteps(Head(relay.todo).ChatID, relay.text, err))]
       IN  relay' = IF err = NoErr THEN r ELSE Handled(r)
    /\ UNCHANGED nonRelay

\* dispatch lines 147-151: SendMessage to the next recipient; a failure is logged
RelaySend(err) ==
    /\ relay.pc = "send"
    /\ relay.todo # <<>>
    /\ err \in TelegramErrs(relay.done)
    /\ relay' = [relay EXCEPT !.todo = Tail(@),
                    !.log = RelayLogged(SendSteps(Head(relay.todo).ChatID, relay.text, err))]
    /\ UNCHANGED nonRelay

\* dispatch lines 152-154: delete(s.cache, sessionID)
Deleted ==
    Handled([relay EXCEPT !.cache[relay.sid] = NoEntry,
                !.log = RelayLogged(<<RelayEvent("delete", relay.sid, "")>>)])

RelayDelete ==
    /\ relay.pc = "send"
    /\ relay.todo = <<>>
    /\ relay' = Deleted
    /\ UNCHANGED nonRelay

\* the relay of runServe: RELAY_MODE, RELAY_FALLBACK and an empty cache
NewRelayService(mode, fallback) ==
    [pc |-> "recv", mode |-> IF mode = "final" THEN "final" ELSE "last",
     fallback |-> fallback,
     cache |-> [s \in RelaySessions |-> NoEntry],
     sid |-> "", text |-> "", todo |-> <<>>, done |-> FALSE, fired |-> FALSE,
     n |-> 0, log |-> <<>>, idleStart |-> 0, idleSid |-> "", handled |-> FALSE,
     hadEntry |-> NoEntry,
     updMark |-> [s \in RelaySessions |-> 0],
     lastUpdate |-> [s \in RelaySessions |-> ""],
     lastNonBlank |-> [s \in RelaySessions |-> ""]]

\* the links the relay finds: none; user 1 on ses_A; users 1 and 2 of the same
\* chat on ses_A and user 3 on ses_X
RelayLinks ==
    {[k \in AllKeys |-> NoLink],
     [k \in AllKeys |-> IF k = "10:1" THEN "ses_A" ELSE NoLink],
     [k \in AllKeys |-> IF k = "10:3" THEN "ses_X" ELSE "ses_A"]}

\* SpecRelay: the relay goroutine on a stream of events
InitRelay ==
    /\ IdleQueue(Calls)
    /\ rp = NoRunPrompt
    /\ upd = [p \in Calls |-> NoUpdate]
    /\ admins = {1}
    /\ allowedUsers = {2}
    /\ sessionLinks \in RelayLinks
    /\ sessionModels = [s \in SessionIDs |-> NoModel]
    /\ defaultSessionID = ""
    /\ loc = [p \in Calls |-> NoLocals]
    /\ log = [p \in Calls |-> <<>>]
    /\ linkTouched = [p \in Calls |-> FALSE]
    /\ \E mode \in {"last", "final", "FINAL"}, fallback \in BOOLEAN :
          /\ (mode # "final" => ~fallback)
          /\ relay = NewRelayService(mode, fallback)
    /\ poll = NoPoll /\ ts = NoTime /\ stream = NoStream /\ wait = NoWait

NextRelay ==
    \/ \E event \in RelayEvents : RelayReceive(event)
    \/ RelayStop
    \/ RelayCancel
    \/ OnSessionIdle
    \/ RelayTimerFires
    \/ \E case \in {"ctx", "timer", "park"} : RelaySelect(case)
    \/ RelayCachedText
    \/ \E ok \in BOOLEAN, text \in FetchedTexts : RelayFetch(ok, text)
    \/ \E err \in {NoErr, "sqlerr", "canceled"} : RelayLookup(err)
    \/ \E err \in {NoErr, "tgerr", "canceled"} : RelaySend(err)
    \/ RelayDelete

SpecRelay == InitRelay /\ [][NextRelay]_vars

----------------------------------------------------------------------------
(* Client.StreamEvents and the select of RelayService.Run; SpecStream *)

\* Number of events the backend writes to the stream in SpecStream.
MaxStreamEvents == 3

\* the events of the stream: a draft and the final text of ses_A, its idle notice
StreamedEvents ==
    {[Type |-> "message.updated", SessionID |-> "ses_A", Text |-> "draft", Final |-> FALSE],
     [Type |-> "message.updated", SessionID |-> "ses_A", Text |-> "final text", Final |-> TRUE],
     [Type |-> "session.idle", SessionID |-> "ses_A", Text |-> "", Final |-> FALSE]}

NoEvent == [Type |-> "", SessionID |-> "", Text |-> "", Final |-> FALSE]

\* c.stream.Do fails, or the status is 400 or more
ConnectErrs == {"connection refused", "opencode event stream status 500"}

\* scanner.Err() after a read that failed
ReadErr == "unexpected EOF"

\* the case that readied the parked select of Run
Woke(case, event, err) == [case |-> case, event |-> event, err |-> err]

NotWoken == Woke("none", NoEvent, NoErr)

\* lines 1193-1196: events := make(chan Event); errs := make(chan error, 1); the
\* goroutine is started. offered: the event of `events <- event` while the
\* goroutine is parked in its select; run: Run is evaluating its select
\* ("select"), is parked in it, or has returned; ret: what Run returned.
\* History: produced, taken (the events written and received, in order), emitted
\* (the error sent while the context was live), spun (Run read the closed errs).
StartStream ==
    [pc |-> "connect", offered |-> NoEvent, errs |-> <<>>,
     errsClosed |-> FALSE, eventsClosed |-> FALSE,
     run |-> "select", woke |-> NotWoken, ret |-> "none",
     produced |-> <<>>, taken |-> <<>>, emitted |-> NoErr, spun |-> FALSE]

RunParked == stream.run = "parked" /\ stream.woke = NotWoken

\* the parked select of Run is readied by `case`
WakeRun(st, case, event, err) ==
    IF RunParked THEN [st EXCEPT !.woke = Woke(case, event, err)] ELSE st

\* `errs <- err; return`: the buffered send, or the hand-off to a parked Run
Emit(st, err) ==
    LET sent == IF RunParked THEN WakeRun(st, "err", NoEvent, err)
                ELSE [st EXCEPT !.errs = <<err>>]
    IN  [sent EXCEPT !.pc = "close_errs",
                     !.emitted = IF relay.done THEN @ ELSE err]

\* lines 1200-1219: the request is made and sent, the status is read
StreamConnect(err) ==
    /\ stream.pc = "connect"
    /\ err \in IF relay.done THEN {"canceled"} ELSE {NoErr} \cup ConnectErrs
    /\ stream' = IF err = NoErr THEN [stream EXCEPT !.pc = "scan"] ELSE Emit(stream, err)
    /\ UNCHANGED <<kqVars, bridgeVars, rp, relay, poll, ts, wait>>

\* lines 1226-1237: the scanner has read an event; select { case events <- event:
\* case <-ctx.Done(): return }. A parked Run receives it at once; otherwise the
\* goroutine returns when the context is cancelled, or parks.
StreamScanEvent(event) ==
    /\ stream.pc = "scan"
    /\ Len(stream.produced) < MaxStreamEvents
    /\ LET st == [stream EXCEPT !.produced = Append(@, event)] IN
       stream' = IF RunParked THEN WakeRun(st, "event", event, NoErr)
                 ELSE IF relay.done THEN [st EXCEPT !.pc = "close_errs"]
                 ELSE [st EXCEPT !.pc = "offer", !.offered = event]
    /\ UNCHANGED <<kqVars, bridgeVars, rp, relay, poll, ts, wait>>

\* lines 1226, 1245-1247: scanner.Scan() returns false, at the end of the body
\* (failed = FALSE) or after a read that failed; a failure is emitted if the
\* context is live
StreamScanEnds(failed) ==
    /\ stream.pc = "scan"
    /\ relay.done => failed
    /\ stream' = IF failed /\ ~relay.done THEN Emit(stream, ReadErr)
                 ELSE [stream EXCEPT !.pc = "close_errs"]
    /\ UNCHANGED <<kqVars, bridgeVars, rp, relay, poll, ts, wait>>

\* deferred, line 1198: close(errs)
StreamCloseErrs ==
    /\ stream.pc = "close_errs"
    /\ stream' = [WakeRun(stream, "errs_closed", NoEvent, NoErr) EXCEPT
                     !.errsClosed = TRUE, !.pc = "close_events"]
    /\ UNCHANGED <<kqVars, bridgeVars, rp, relay, poll, ts, wait>>

\* deferred, line 1197: close(events)
StreamCloseEvents ==
    /\ stream.pc = "close_events"
    /\ stream' = [WakeRun(stream, "events_closed", NoEvent, NoErr) EXCEPT
                     !.eventsClosed = TRUE, !.pc = "ended"]
    /\ UNCHANGED <<kqVars, bridgeVars, rp, relay, poll, ts, wait>>

\* Run returns ret
RunReturns(st, ret) == [st EXCEPT !.run = "returned", !.ret = ret, !.woke = NotWoken]

Stopped == [relay EXCEPT !.pc = "stopped"]

AtSelect == relay.pc = "recv" /\ stream.run = "select"

\* Run lines 63-64: case <-ctx.Done(): return nil
RunCtxDone ==
    /\ AtSelect
    /\ relay.done
    /\ relay' = Stopped
    /\ stream' = RunReturns(stream, "nil")
    /\ UNCHANGED <<kqVars, bridgeVars, rp, poll, ts, wait>>

\* Run lines 65-71: case err, ok := <-errs, with the buffered error
RunErr ==
    /\ AtSelect
    /\ stream.errs # <<>>
    /\ relay' = Stopped
    /\ stream' = RunReturns([stream EXCEPT !.errs = <<>>], Head(stream.errs))
    /\ UNCHANGED <<kqVars, bridgeVars, rp, poll, ts, wait>>

\* Run lines 65-68: errs is closed and empty: !ok, continue
RunErrsClosed ==
    /\ AtSelect
    /\ stream.errs = <<>> /\ stream.errsClosed
    /\ stream' = [stream EXCEPT !.spun = TRUE]
    /\ UNCHANGED <<kqVars, bridgeVars, rp, relay, poll, ts, wait>>

\* a Run that receives the next event whatever it is doing
RunEventWhileHandling ==
    /\ relay.pc \notin {"off", "stopped"}
    /\ stream.run = "select"
    /\ stream.pc = "offer"
    /\ relay' = Received(stream.offered)
    /\ stream' = [stream EXCEPT !.pc = "scan", !.offered = NoEvent,
                                !.taken = Append(@, stream.offered)]
    /\ UNCHANGED <<kqVars, bridgeVars, rp, poll, ts, wait>>

\* Run lines 72-76: case event, ok := <-events, from the goroutine parked in its
\* send; handleEvent
RunEvent ==
    /\ AtSelect
    /\ stream.pc = "offer"
    /\ relay' = Received(stream.offered)
    /\ stream' = [stream EXCEPT !.pc = "scan", !.offered = NoEvent,
                                !.taken = Append(@, stream.offered)]
    /\ UNCHANGED <<kqVars, bridgeVars, rp, poll, ts, wait>>

\* Run lines 72-75: events is closed: !ok, return nil
RunEventsClosed ==
    /\ AtSelect
    /\ stream.eventsClosed
    /\ relay' = Stopped
    /\ stream' = RunReturns(stream, "nil")
    /\ UNCHANGED <<kqVars, bridgeVars, rp, poll, ts, wait>>

\* no case of the select is ready: Run parks
RunPark ==
    /\ AtSelect
    /\ ~relay.done
    /\ stream.errs = <<>> /\ ~stream.errsClosed
    /\ stream.pc # "offer" /\ ~stream.eventsClosed
    /\ stream' = [stream EXCEPT !.run = "parked", !.woke = NotWoken]
    /\ UNCHANGED <<kqVars, bridgeVars, rp, relay, poll, ts, wait>>

\* the parked select resumes with the case that readied it
RunWake ==
    /\ stream.run = "parked"
    /\ stream.woke # NotWoken
    /\ LET w == stream.woke
           awake == [stream EXCEPT !.run = "select", !.woke = NotWoken]
       IN  CASE w.case = "ctx" ->
                  relay' = Stopped /\ stream' = RunReturns(stream, "nil")
             [] w.case = "err" ->
                  relay' = Stopped /\ stream' = RunReturns(stream, w.err)
             [] w.case = "errs_closed" ->
                  relay' = relay /\ stream' = [awake EXCEPT !.spun = TRUE]
             [] w.case = "event" ->
                  /\ relay' = Received(w.event)
                  /\ stream' = [awake EXCEPT !.taken = Append(@, w.event)]
             [] OTHER ->
                  relay' = Stopped /\ stream' = RunReturns(stream, "nil")
    /\ UNCHANGED <<kqVars, bridgeVars, rp, poll, ts, wait>>

\* the root context is cancelled: a Run parked in either select and a goroutine
\* parked in its send take ctx.Done()
StreamCancel ==
    /\ relay.pc \notin {"off", "stopped"}
    /\ ~relay.done
    /\ relay' = Cancelled
    /\ stream' = LET st == IF relay.pc = "recv" THEN WakeRun(stream, "ctx", NoEvent, NoErr)
                           ELSE stream
                 IN  IF stream.pc = "offer"
                     THEN [st EXCEPT !.pc = "close_errs", !.offered = NoEvent]
                     ELSE st
    /\ UNCHANGED <<kqVars, bridgeVars, rp, poll, ts, wait>>

\* SpecStream: Run on the channels of StreamEvents; user 1 is linked to ses_A
InitStream ==
    /\ IdleQueue({})
    /\ rp = NoRunPrompt
    /\ upd = <<>> /\ loc = <<>> /\ log = <<>> /\ linkTouched = <<>>
    /\ admins = {1}
    /\ allowedUsers = {2}
    /\ sessionLinks = [k \in AllKeys |-> IF k = "10:1" THEN "ses_A" ELSE NoLink]
    /\ sessionModels = [s \in SessionIDs |-> NoModel]
    /\ defaultSessionID = ""
    /\ \E mode \in {"last", "final"}, fallback \in BOOLEAN :
          /\ (mode # "final" => ~fallback)
          /\ relay = NewRelayService(mode, fallback)
    /\ stream = StartStream
    /\ poll = NoPoll /\ ts = NoTime /\ wait = NoWait

NextStream ==
    \/ \E err \in {NoErr, "canceled"} \cup ConnectErrs : StreamConnect(err)
    \/ \E event \in StreamedEvents : StreamScanEvent(event)
    \/ \E failed \in BOOLEAN : StreamScanEnds(failed)
    \/ StreamCloseErrs
    \/ StreamCloseEvents
    \/ RunCtxDone
    \/ RunErr
    \/ RunErrsClosed
    \/ RunEvent
    \/ RunEventsClosed
    \/ RunPark
    \/ RunWake
    \/ StreamCancel
    \/ OnSessionIdle
    \/ RelayTimerFires
    \/ \E case \in {"ctx", "timer", "park"} : RelaySelect(case)
    \/ RelayCachedText
    \/ \E ok \in BOOLEAN, text \in {"", "fetched"} : RelayFetch(ok, text)
    \/ \E err \in {NoErr, "sqlerr", "canceled"} : RelayLookup(err)
    \/ \E err \in {NoErr, "tgerr", "canceled"} : RelaySend(err)
    \/ RelayDelete

SpecStream == InitStream /\ [][NextStream]_vars

----------------------------------------------------------------------------
(* runServe: the dispatcher and the relay in one process; SpecServe *)

\* polling mode hands the updates to HandleUpdate one at a time
Servers == {1}

\* prompts of the admin, whose chat is linked to ses_A, and of a stranger
ServeUpdates == [kind : {"prompt"}, user : {1, 3}, arg : {""}]

\* what the backend streams about the reply to a prompt in ses_A: the waiter
\* reads the same text in its snapshot
ServeEvents ==
    {[Type |-> "message.updated", SessionID |-> "ses_A", Text |-> "new", Final |-> TRUE],
     [Type |-> "session.idle", SessionID |-> "ses_A", Text |-> "", Final |-> FALSE]}

ServeConfigs == [RelaySSEEnabled : BOOLEAN, RelayMode : {"last", "final"},
                 RelayFallback : {FALSE}]

\* runServe lines 111-151: the relay is built, and started when RELAY_SSE_ENABLED
RunServe(cfg) ==
    IF cfg.RelaySSEEnabled THEN NewRelayService(cfg.RelayMode, cfg.RelayFallback)
    ELSE NoRelay

InitServe ==
    /\ IdleQueue(Servers)
    /\ rp = NoRunPrompt
    /\ upd = [p \in Servers |-> NoUpdate]
    /\ admins = {1}
    /\ allowedUsers = {2}
    /\ sessionLinks = [k \in AllKeys |-> IF k = QueueKey(ChatID, 1) THEN "ses_A" ELSE NoLink]
    /\ sessionModels = [s \in SessionIDs |-> NoModel]
    /\ defaultSessionID = ""
    /\ loc = [p \in Servers |-> NoLocals]
    /\ log = [p \in Servers |-> <<>>]
    /\ linkTouched = [p \in Servers |-> FALSE]
    /\ \E cfg \in ServeConfigs : relay = RunServe(cfg)
    /\ poll = NoPoll /\ ts = NoTime /\ stream = NoStream /\ wait = NoWait

\* one update at a time never waits in the queue; the chat has a link and no
\* model override
NextServe ==
    \/ \E h \in Servers :
        \/ \E u \in ServeUpdates : HandleUpdate(h, u)
        \/ \E err \in {NoErr, "sqlerr", "canceled"} :
              \/ PromptAuth(h, err)
              \/ FnGetSessionLink(h, err)
              \/ FnGetModel(h, err)
              \/ FnSetSession(h, err)
        \/ PromptDeny(h)
        \/ RunLock(h)
        \/ RunInstall(h)
        \/ FnStart(h)
        \/ \E snap \in Snapshots : FnSnapshot(h, snap)
        \/ /\ pc[h] = "fn_runprompt"
           /\ \E script \in BridgeScripts(loc[h].sessionID, FreshID(h, 1), FreshID(h, 2)) :
                 FnRunPrompt(h, script)
        \/ \E err \in {NoErr, "tgerr", "canceled"} : FnAck(h, err) \/ FnReply(h, err)
        \/ \E ok \in BOOLEAN :
              \/ \E snap \in Snapshots : WaitSnapshot(h, ok, snap) \/ WaitIdleSnapshot(h, ok, snap)
              \/ \E state \in SessionStates : WaitState(h, ok, state)
        \/ \E deadline \in BOOLEAN : WaitCtx(h, deadline)
        \/ RunDeferClose(h)
        \/ RunDeferLock(h)
        \/ RunDeferDelete(h)
        \/ HandleRunResult(h)
        \/ (pc[h] \in CancelPoints /\ CtxCancel(h))
    \/ \E event \in ServeEvents : RelayReceive(event)
    \/ OnSessionIdle
    \/ \E ok \in BOOLEAN, text \in FetchedTexts : RelayFetch(ok, text)
    \/ \E err \in {NoErr, "sqlerr"} : RelayLookup(err)
    \/ \E err \in {NoErr, "tgerr"} : RelaySend(err)
    \/ RelayDelete

SpecServe == InitServe /\ [][NextServe]_vars

----------------------------------------------------------------------------
(* The dispatcher under polling: one update at a time; SpecSeq *)

\* Number of updates handled one after the other in SpecSeq.
NumSeq == 2

SeqTasks == 1..NumSeq

\* prompts, "/session new" and "/session" of the admin and of a stranger
SeqUpdates == [kind : {"prompt", "session_new", "session_show"}, user : {1, 3}, arg : {""}]

\* the link of (10, 1) and DEFAULT_SESSION_ID at start
SeqStores == [link : {NoLink, "ses_A"}, default : {"", "ses_D"}]

\* PollUpdates line 73: the handler is called when the previous call has returned
NoneInFlight == \A q \in Tasks : pc[q] \in {"idle", "done"}

InitSeq ==
    /\ IdleQueue(SeqTasks)
    /\ rp = NoRunPrompt
    /\ relay = NoRelay
    /\ poll = NoPoll /\ ts = NoTime /\ stream = NoStream /\ wait = NoWait
    /\ upd = [p \in SeqTasks |-> NoUpdate]
    /\ admins = {1}
    /\ allowedUsers = {2}
    /\ \E store \in SeqStores :
          /\ sessionLinks = [k \in AllKeys |->
                                IF k = QueueKey(ChatID, 1) THEN store.link ELSE NoLink]
          /\ defaultSessionID = store.default
    /\ sessionModels = [s \in SessionIDs |-> NoModel]
    /\ loc = [p \in SeqTasks |-> NoLocals]
    /\ log = [p \in SeqTasks |-> <<>>]
    /\ linkTouched = [p \in SeqTasks |-> FALSE]

\* one update at a time never waits in the queue; no model override is stored
NextSeq ==
    \E h \in SeqTasks :
        \/ NoneInFlight /\ \E u \in SeqUpdates : HandleUpdate(h, u)
        \/ \E err \in {NoErr, "sqlerr", "canceled"} :
              \/ PromptAuth(h, err)
              \/ FnGetSessionLink(h, err)
              \/ FnUpsertDefault(h, err)
              \/ FnGetModel(h, err)
              \/ FnSetSession(h, err)
              \/ CommandAuth(h, err)
              \/ CommandGetSession(h, err)
              \/ CommandUpsertDefault(h, err)
              \/ CommandClearSession(h, err)
              \/ CommandSetSession(h, err)
        \/ PromptDeny(h)
        \/ RunLock(h)
        \/ RunInstall(h)
        \/ FnStart(h)
        \/ \E snap \in Snapshots : FnSnapshot(h, snap)
        \/ /\ pc[h] = "fn_runprompt"
           /\ \E script \in BridgeScripts(loc[h].sessionID, FreshID(h, 1), FreshID(h, 2)) :
                 FnRunPrompt(h, script)
        \/ \E err \in {NoErr, "tgerr", "canceled"} : FnAck(h, err) \/ FnReply(h, err)
        \/ \E ok \in BOOLEAN :
              \/ \E snap \in Snapshots : WaitSnapshot(h, ok, snap) \/ WaitIdleSnapshot(h, ok, snap)
              \/ \E state \in SessionStates : WaitState(h, ok, state)
        \/ \E deadline \in BOOLEAN : WaitCtx(h, deadline)
        \/ RunDeferClose(h)
        \/ RunDeferLock(h)
        \/ RunDeferDelete(h)
        \/ HandleRunResult(h)
        \/ (pc[h] \in CancelPoints /\ CtxCancel(h))

SpecSeq == InitSeq /\ [][NextSeq]_vars

----------------------------------------------------------------------------
(* The locks: RelayService.mu around the cache, KeyedQueue.mu; SpecLocks *)

\* the relay with its lock: mu is "free", "r" (RLock) or "w" (Lock), held by the
\* goroutine of Run; pending is the event updateCache is storing
LockedRelay(mode, fallback) ==
    [mu |-> "free", pending |-> NoEvent] @@ NewRelayService(mode, fallback)

\* updateCache reaches s.mu.Lock()
StoresText(event) ==
    /\ event.SessionID # ""
    /\ event.Type = "message.updated"
    /\ TrimText(event.Text) # ""

\* Run lines 72-76, handleEvent, updateCache lines 94-98: an event is received;
\* for a text to store, s.mu.Lock()
HandleEvent(event) ==
    /\ relay.pc = "recv"
    /\ relay.n < MaxRelayEvents
    /\ relay' = IF StoresText(event)
                THEN [relay EXCEPT !.pc = "update", !.mu = "w", !.pending = event]
                ELSE Received(event)
    /\ UNCHANGED nonRelay

\* updateCache lines 99-100: the entry is written; s.mu.Unlock()
UpdateCacheUnlock ==
    /\ relay.pc = "update"
    /\ relay.mu = "w"
    /\ relay' = [Received(relay.pending) EXCEPT !.pc = "recv", !.mu = "free",
                                               !.pending = NoEvent]
    /\ UNCHANGED nonRelay

\* cachedEntry line 166: s.mu.RLock()
CachedEntryRLock ==
    /\ relay.pc \in {"idle", "cached"}
    /\ relay.mu = "free"
    /\ relay' = [relay EXCEPT !.mu = "r"]
    /\ UNCHANGED nonRelay

\* cachedEntry lines 167-169 for onSessionIdle lines 104-123: the entry is read;
\* s.mu.RUnlock(); the mode, the timer
CachedEntryOnIdle ==
    /\ relay.pc = "idle"
    /\ relay.mu = "r"
    /\ relay' = [AfterIdle EXCEPT !.mu = "free"]
    /\ UNCHANGED nonRelay

\* cachedEntry lines 167-169 for onSessionIdle lines 131-135, after the delay
CachedEntryAfterDelay ==
    /\ relay.pc = "cached"
    /\ relay.mu = "r"
    /\ relay' = [AfterDelay EXCEPT !.mu = "free"]
    /\ UNCHANGED nonRelay

\* a dispatch that takes the lock before it sends
DispatchLockBeforeSends ==
    /\ relay.pc = "send"
    /\ relay.mu = "free"
    /\ relay' = [relay EXCEPT !.mu = "w"]
    /\ UNCHANGED nonRelay

\* dispatch line 152, after the last send: s.mu.Lock()
DispatchLock ==
    /\ relay.pc = "send"
    /\ relay.todo = <<>>
    /\ relay.mu = "free"
    /\ relay' = [relay EXCEPT !.mu = "w"]
    /\ UNCHANGED nonRelay

\* dispatch lines 153-154: delete(s.cache, sessionID); s.mu.Unlock()
DispatchDelete ==
    /\ relay.pc = "send"
    /\ relay.todo = <<>>
    /\ relay.mu = "w"
    /\ relay' = [Deleted EXCEPT !.mu = "free"]
    /\ UNCHANGED nonRelay

\* what the backend streams in SpecLocks: a draft and the final text of the
\* reply in ses_A, and the idle notice
LockEvents ==
    {[Type |-> "message.updated", SessionID |-> "ses_A", Text |-> "draft", Final |-> FALSE],
     [Type |-> "message.updated", SessionID |-> "ses_A", Text |-> "new", Final |-> TRUE],
     [Type |-> "session.idle", SessionID |-> "ses_A", Text |-> "", Final |-> FALSE]}

\* SpecLocks: the dispatcher of runServe on one update at a time and the relay,
\* each with its lock
InitLocks ==
    /\ IdleQueue(Servers)
    /\ rp = NoRunPrompt
    /\ upd = [p \in Servers |-> NoUpdate]
    /\ admins = {1}
    /\ allowedUsers = {2}
    /\ sessionLinks = [k \in AllKeys |-> IF k = QueueKey(ChatID, 1) THEN "ses_A" ELSE NoLink]
    /\ sessionModels = [s \in SessionIDs |-> NoModel]
    /\ defaultSessionID = ""
    /\ loc = [p \in Servers |-> NoLocals]
    /\ log = [p \in Servers |-> <<>>]
    /\ linkTouched = [p \in Servers |-> FALSE]
    /\ \E mode \in {"last", "final"}, fallback \in BOOLEAN :
          /\ (mode # "final" => ~fallback)
          /\ relay = LockedRelay(mode, fallback)
    /\ poll = NoPoll /\ ts = NoTime /\ stream = NoStream /\ wait = NoWait

NextLocks ==
    \/ \E h \in Servers :
        \/ \E u \in ServeUpdates : HandleUpdate(h, u)
        \/ \E err \in {NoErr, "sqlerr", "canceled"} :
              \/ PromptAuth(h, err)
              \/ FnGetSessionLink(h, err)
              \/ FnGetModel(h, err)
              \/ FnSetSession(h, err)
        \/ PromptDeny(h)
        \/ RunLock(h)
        \/ RunInstall(h)
        \/ FnStart(h)
        \/ \E snap \in Snapshots : FnSnapshot(h, snap)
        \/ /\ pc[h] = "fn_runprompt"
           /\ \E script \in BridgeScripts(loc[h].sessionID, FreshID(h, 1), FreshID(h, 2)) :
                 FnRunPrompt(h, script)
        \/ \E err \in {NoErr, "tgerr", "canceled"} : FnAck(h, err) \/ FnReply(h, err)
        \/ \E ok \in BOOLEAN :
              \/ \E snap \in Snapshots : WaitSnapshot(h, ok, snap) \/ WaitIdleSnapshot(h, ok, snap)
              \/ \E state \in SessionStates : WaitState(h, ok, state)
        \/ \E deadline \in BOOLEAN : WaitCtx(h, deadline)
        \/ RunDeferClose(h)
        \/ RunDeferLock(h)
        \/ RunDeferDelete(h)
        \/ HandleRunResult(h)
        \/ (pc[h] \in CancelPoints /\ CtxCancel(h))
    \/ \E event \in LockEvents : HandleEvent(event)
    \/ UpdateCacheUnlock
    \/ CachedEntryRLock
    \/ CachedEntryOnIdle
    \/ CachedEntryAfterDelay
    \/ RelayTimerFires
    \/ \E case \in {"timer", "park"} : RelaySelect(case)
    \/ \E ok \in BOOLEAN, text \in FetchedTexts : RelayFetch(ok, text)
    \/ \E err \in {NoErr, "sqlerr"} : RelayLookup(err)
    \/ \E err \in {NoErr, "tgerr"} : RelaySend(err)
    \/ DispatchLock
    \/ DispatchDelete

SpecLocks == InitLocks /\ [][NextLocks]_vars

----------------------------------------------------------------------------
(* The control plane: POST /command/session/use; SpecControl *)

\* the bodies of the requests: a user of the chat and a "sessionId"
ControlRequests == [user : {1}, sessionId : {"ses_X", " ses_A ", "bad id", "  "}]

\* commandSessionUseHandler (part_014 lines 160-175) and ControlService.SessionUse
\* (part_013 lines 64-69): a blank id is refused; any other id is trimmed and
\* stored by SessionLinkService.SetSession
ControlSessionUse(h, req, err) ==
    /\ pc[h] = "idle"
    /\ err \in RepoErrs(ctxDone[h])
    /\ pc' = [pc EXCEPT ![h] = "done"]
    /\ upd' = [upd EXCEPT ![h] = [kind |-> "control_use", user |-> req.user,
                                  arg |-> req.sessionId]]
    /\ LET k == QueueKey(ChatID, req.user)
           sessionID == TrimSpace(req.sessionId)
       IN  IF sessionID = ""
           THEN /\ log' = Logged(h, <<Event("http", "400 sessionId is required")>>)
                /\ UNCHANGED <<sessionLinks, linkTouched>>
           ELSE IF err # NoErr
           THEN /\ log' = Logged(h, <<Event("http", "400")>>)
                /\ UNCHANGED <<sessionLinks, linkTouched>>
           ELSE /\ sessionLinks' = [sessionLinks EXCEPT ![k] = sessionID]
                /\ linkTouched' = TouchOthers(h, k)
                /\ log' = Logged(h, <<Event("link", sessionID), Event("http", "200")>>)
    /\ UNCHANGED <<key, ctxDone, result, kqState, authz, sessionModels,
                   defaultSessionID, loc, rp, relay, poll, ts, stream, wait>>

\* SpecControl: the updates of SpecSeq and requests to the control plane, which
\* its HTTP server handles on goroutines of their own
NextControl ==
    \/ NextSeq
    \/ \E h \in SeqTasks, req \in ControlRequests, err \in {NoErr, "sqlerr", "canceled"} :
          ControlSessionUse(h, req, err)

SpecControl == InitSeq /\ [][NextControl]_vars

----------------------------------------------------------------------------
(* BridgeService.waitForAssistantResponse with its contexts, its timers and its
   typing goroutine; SpecWait *)

\* the arguments of SpecWait: a session id (or a blank one) and the snapshot
\* taken before the prompt
WaitCalls == [sessionID : {"ses_A", "  "}, previous : PreviousSnapshots]

\* fmt.Errorf("timeout waiting for OpenCode response ...")
ErrWaitTimeout == "wait_timeout"

\* the call: ctx is waitCtx.Err() ("nil", "canceled", "deadline"), armed the
\* timer of context.WithTimeout, parent the parent context's cancellation,
\* stopTyping the channel closed (TRUE) or not, typing the position of the
\* goroutine, tick a value waiting in ticker.C. History: pinged, ctxAtReturn
\* (waitCtx.Err() when the return statement ran)
NewWait(call, parent) ==
    [pc |-> "start", sessionID |-> call.sessionID, previous |-> call.previous,
     lastSnapshot |-> call.previous, parent |-> parent, ctx |-> "nil",
     armed |-> FALSE, stopTyping |-> FALSE, typing |-> "off", tick |-> FALSE,
     text |-> "", err |-> "none", pinged |-> FALSE, ctxAtReturn |-> "none"]

nonWait == <<kqVars, bridgeVars, rp, relay, poll, ts, stream>>

\* return text, err: the deferred functions run next
WaitReturns(w, text, err) ==
    [w EXCEPT !.pc = "defer_stop", !.text = text, !.err = err, !.ctxAtReturn = w.ctx]

\* a wait whose context has no deadline
AwaitStartNoTimeout ==
    /\ wait.pc = "start"
    /\ wait' = IF TrimSpace(wait.sessionID) = ""
               THEN [wait EXCEPT !.pc = "returned", !.err = "session id is empty"]
               ELSE [wait EXCEPT !.pc = "ping", !.typing = "select",
                                 !.ctx = IF wait.parent THEN "canceled" ELSE "nil"]
    /\ UNCHANGED nonWait

\* lines 604-627: the empty session id; context.WithTimeout(ctx, 5*time.Minute);
\* stopTyping; the typing goroutine is started
AwaitStart ==
    /\ wait.pc = "start"
    /\ wait' = IF TrimSpace(wait.sessionID) = ""
               THEN [wait EXCEPT !.pc = "returned", !.err = "session id is empty"]
               ELSE [wait EXCEPT !.pc = "ping", !.typing = "select", !.armed = TRUE,
                                 !.ctx = IF wait.parent THEN "canceled" ELSE "nil"]
    /\ UNCHANGED nonWait

\* line 629: SendChatAction(waitCtx, chatID, "typing"), its error ignored
AwaitPing ==
    /\ wait.pc = "ping"
    /\ wait' = [wait EXCEPT !.pc = "snapshot", !.pinged = TRUE]
    /\ UNCHANGED nonWait

\* lines 634-643: now, snapErr := GetAssistantSnapshot(waitCtx, sessionID)
AwaitSnapshot(ok, now) ==
    /\ wait.pc = "snapshot"
    /\ ok \in IF wait.ctx # "nil" THEN {FALSE} ELSE BOOLEAN
    /\ now \in Snapshots
    /\ wait' =
         IF ok /\ TrimSpace(now.Last) # ""
               /\ (now.Count > wait.previous.Count
                   \/ TrimSpace(now.Last) # TrimSpace(wait.previous.Last))
         THEN WaitReturns([wait EXCEPT !.lastSnapshot = now], TrimSpace(now.Last), NoErr)
         ELSE [wait EXCEPT !.lastSnapshot = IF ok THEN now ELSE @, !.pc = "state"]
    /\ UNCHANGED nonWait

\* lines 645-655: state, stateErr := GetSessionState(waitCtx, sessionID)
AwaitState(ok, state) ==
    /\ wait.pc = "state"
    /\ ok \in IF wait.ctx # "nil" THEN {FALSE} ELSE BOOLEAN
    /\ state \in SessionStates
    /\ wait' =
         IF ok /\ IsErrorState(state)
         THEN IF TrimSpace(wait.lastSnapshot.Last) # ""
              THEN WaitReturns(wait, TrimSpace(wait.lastSnapshot.Last), NoErr)
              ELSE WaitReturns(wait, "", "error_state")
         ELSE [wait EXCEPT !.pc = IF ok /\ IsIdleState(state) THEN "idle" ELSE "ctxerr"]
    /\ UNCHANGED nonWait

\* lines 656-660: the snapshot read again once the session is idle
AwaitIdleSnapshot(ok, snapshot) ==
    /\ wait.pc = "idle"
    /\ ok \in IF wait.ctx # "nil" THEN {FALSE} ELSE BOOLEAN
    /\ snapshot \in Snapshots
    /\ wait' =
         IF ok /\ TrimSpace(snapshot.Last) # ""
         THEN WaitReturns([wait EXCEPT !.lastSnapshot = snapshot],
                          TrimSpace(snapshot.Last), NoErr)
         ELSE [wait EXCEPT !.pc = "ctxerr"]
    /\ UNCHANGED nonWait

\* what the function returns for waitCtx.Err(): lines 664-669, 673-677
ErrOfCtx(ctxErr) == IF ctxErr = "canceled" THEN "canceled" ELSE ErrWaitTimeout

\* lines 663-670: if waitCtx.Err() != nil
AwaitCtxErr ==
    /\ wait.pc = "ctxerr"
    /\ wait' = IF wait.ctx # "nil" THEN WaitReturns(wait, "", ErrOfCtx(wait.ctx))
               ELSE [wait EXCEPT !.pc = "select"]
    /\ UNCHANGED nonWait

\* lines 672-679: select on waitCtx.Done() and time.After(2 * time.Second)
AwaitSelect(case) ==
    /\ wait.pc = "select"
    /\ case \in {"done", "after"}
    /\ IF case = "done"
       THEN /\ wait.ctx # "nil"
            /\ wait' = WaitReturns(wait, "", ErrOfCtx(wait.ctx))
       ELSE wait' = [wait EXCEPT !.pc = "snapshot"]
    /\ UNCHANGED nonWait

\* deferred, line 612: close(stopTyping)
AwaitDeferStop ==
    /\ wait.pc = "defer_stop"
    /\ wait' = [wait EXCEPT !.pc = "defer_cancel", !.stopTyping = TRUE]
    /\ UNCHANGED nonWait

\* deferred, line 609: cancel()
AwaitDeferCancel ==
    /\ wait.pc = "defer_cancel"
    /\ wait' = [wait EXCEPT !.pc = "returned",
                            !.ctx = IF @ = "nil" THEN "canceled" ELSE @]
    /\ UNCHANGED nonWait

\* the parent context is cancelled
ParentCancel ==
    /\ wait.pc \notin {"off", "returned"}
    /\ ~wait.parent
    /\ wait' = [wait EXCEPT !.parent = TRUE,
                            !.ctx = IF @ = "nil" /\ wait.pc # "start" THEN "canceled" ELSE @]
    /\ UNCHANGED nonWait

\* the five minutes of context.WithTimeout have passed
DeadlineFires ==
    /\ wait.armed
    /\ wait.ctx = "nil"
    /\ wait' = [wait EXCEPT !.ctx = "deadline"]
    /\ UNCHANGED nonWait

\* the ticker of the typing goroutine (4 seconds) puts a tick in ticker.C
TypingTick ==
    /\ wait.typing \in {"select", "ping"}
    /\ ~wait.tick
    /\ wait' = [wait EXCEPT !.tick = TRUE]
    /\ UNCHANGED nonWait

\* lines 617-626: the select of the typing goroutine
TypingSelect(case) ==
    /\ wait.typing = "select"
    /\ case \in {"stop", "done", "tick"}
    /\ CASE case = "stop" -> wait.stopTyping /\ wait' = [wait EXCEPT !.typing = "stopped"]
         [] case = "done" -> wait.ctx # "nil" /\ wait' = [wait EXCEPT !.typing = "stopped"]
         [] OTHER -> wait.tick /\ wait' = [wait EXCEPT !.typing = "ping", !.tick = FALSE]
    /\ UNCHANGED nonWait

\* line 624: SendChatAction(waitCtx, chatID, "typing")
TypingPing ==
    /\ wait.typing = "ping"
    /\ wait' = [wait EXCEPT !.typing = "select", !.pinged = TRUE]
    /\ UNCHANGED nonWait

\* SpecWait: one call of waitForAssistantResponse, with a parent context that is
\* live or already cancelled
InitWait ==
    /\ IdleQueue({}) /\ IdleBridge({}) /\ rp = NoRunPrompt
    /\ relay = NoRelay /\ poll = NoPoll /\ ts = NoTime /\ stream = NoStream
    /\ \E call \in WaitCalls, parent \in BOOLEAN : wait = NewWait(call, parent)

\* the steps of the function itself
AwaitStep ==
    \/ AwaitStart
    \/ AwaitPing
    \/ \E ok \in BOOLEAN :
          \/ \E snap \in Snapshots : AwaitSnapshot(ok, snap) \/ AwaitIdleSnapshot(ok, snap)
          \/ \E state \in SessionStates : AwaitState(ok, state)
    \/ AwaitCtxErr
    \/ \E case \in {"done", "after"} : AwaitSelect(case)
    \/ AwaitDeferStop
    \/ AwaitDeferCancel

\* the typing goroutine leaves its loop
TypingStops == TypingSelect("stop") \/ TypingSelect("done")

NextWait ==
    \/ AwaitStep
    \/ ParentCancel
    \/ DeadlineFires
    \/ TypingTick
    \/ \E case \in {"stop", "done", "tick"} : TypingSelect(case)
    \/ TypingPing

SpecWait == InitWait /\ [][NextWait]_vars

\* SpecWaitLive: a goroutine that can run does run and every HTTP call returns;
\* the timer of the deadline fires when its time has come; a select that finds
\* a closed channel ready again and again takes it in the end (the runtime
\* chooses among ready cases uniformly at random)
SpecWaitLive ==
    /\ SpecWait
    /\ WF_vars(AwaitStep)
    /\ WF_vars(DeadlineFires)
    /\ WF_vars(TypingPing)
    /\ SF_vars(TypingStops)

----------------------------------------------------------------------------
(* A prompt and "/deny" of its sender at the same time; SpecDeny *)

\* a prompt of the allowed user 2 and the admin's "/deny 2"
DenyUpdates == {[kind |-> "prompt", user |-> 2, arg |-> ""],
                [kind |-> "deny", user |-> 1, arg |-> "2"]}

\* SpecDeny: user 2 is allowed and has no session; admin 1
InitDeny ==
    /\ IdleQueue(Handlers)
    /\ rp = NoRunPrompt
    /\ relay = NoRelay /\ poll = NoPoll /\ ts = NoTime /\ stream = NoStream /\ wait = NoWait
    /\ upd = [p \in Handlers |-> NoUpdate]
    /\ admins = {1}
    /\ allowedUsers = {2}
    /\ sessionLinks = [k \in AllKeys |-> NoLink]
    /\ sessionModels = [s \in SessionIDs |-> NoModel]
    /\ defaultSessionID \in {"", "ses_D"}
    /\ loc = [p \in Handlers |-> NoLocals]
    /\ log = [p \in Handlers |-> <<>>]
    /\ linkTouched = [p \in Handlers |-> FALSE]

NextDeny ==
    \E h \in Handlers :
        \/ \E u \in DenyUpdates : HandleUpdate(h, u)
        \/ \E err \in {NoErr, "sqlerr", "canceled"} :
              \/ AdminAuth(h, err)
              \/ AdminWrite(h, err)
              \/ PromptAuth(h, err)
              \/ FnGetSessionLink(h, err)
              \/ FnUpsertDefault(h, err)
              \/ FnGetModel(h, err)
              \/ FnSetSession(h, err)
        \/ PromptDeny(h)
        \/ RunLock(h)
        \/ RunInstall(h)
        \/ RunSelectPrevious(h)
        \/ RunSelectCtx(h)
        \/ RunSelectPark(h)
        \/ RunWakePrevious(h)
        \/ RunWakeCtx(h)
        \/ FnStart(h)
        \/ \E snap \in Snapshots : FnSnapshot(h, snap)
        \/ /\ pc[h] = "fn_runprompt"
           /\ \E script \in BridgeScripts(loc[h].sessionID, FreshID(h, 1), FreshID(h, 2)) :
                 FnRunPrompt(h, script)
        \/ \E err \in {NoErr, "tgerr", "canceled"} : FnAck(h, err) \/ FnReply(h, err)
        \/ \E ok \in BOOLEAN :
              \/ \E snap \in Snapshots : WaitSnapshot(h, ok, snap) \/ WaitIdleSnapshot(h, ok, snap)
              \/ \E state \in SessionStates : WaitState(h, ok, state)
        \/ \E deadline \in BOOLEAN : WaitCtx(h, deadline)
        \/ RunDeferClose(h)
        \/ RunDeferLock(h)
        \/ RunDeferDelete(h)
        \/ HandleRunResult(h)
        \/ (pc[h] \in CancelPoints /\ CtxCancel(h))

SpecDeny == InitDeny /\ [][NextDeny]_vars

----------------------------------------------------------------------------
(* Properties of the relay (SpecRelay) *)

\* the steps of the relay since the session.idle event it received last
IdleLog == SubSeq(relay.log, relay.idleStart + 1, Len(relay.log))

IdleSteps(tag) == SelectSeq(IdleLog, LAMBDA e : e[1] = tag)

\* the SendMessage calls to one chat for that event
IdleSendsTo(chat) == SelectSeq(IdleSteps("send"), LAMBDA e : e[2] = chat)

\* at most one send per recipient chat for the event
AtMostOnePerChat == Len(IdleSendsTo(ChatID)) <= 1

\* no entry for the session once the event has been handled
CacheEmptied == relay.handled => ~relay.cache[relay.idleSid].ok

\* C13: for each session.idle event, in either mode, the relay performs at most
\* one Telegram send per recipient chat, and once the event has been handled the
\* cache holds no entry for that session.
C13_AtMostOnceAndCacheEmptied == AtMostOnePerChat /\ CacheEmptied

\* the entry the idle event found is marked final and has non-blank text
FoundFinal == relay.hadEntry.ok /\ relay.hadEntry.Final /\ TrimText(relay.hadEntry.Text) # ""

\* position of the first step with this tag since the idle event, 0 if none
FirstStep(tag) ==
    IF IdleSteps(tag) = <<>> THEN 0
    ELSE CHOOSE i \in 1..Len(IdleLog) :
            /\ IdleLog[i][1] = tag
            /\ \A j \in 1..(i - 1) : IdleLog[j][1] # tag

\* FindRecipientsBySession has answered for the event
LookedUp == \E i \in 1..Len(IdleLog) : IdleLog[i] = RelayEvent("lookup", relay.idleSid, NoErr)

\* the event is handled and every linked (chat, user) got one SendMessage call
\* with this text, and nothing else was sent
SentToEach(text) ==
    /\ Len(IdleSteps("send")) = Cardinality(Recipients(relay.idleSid))
    /\ \A i \in 1..Len(IdleSteps("send")) : IdleSteps("send")[i] = RelayEvent("send", ChatID, text)

\* every send made so far for the event carries this text
SentOnly(text) ==
    \A i \in 1..Len(IdleSteps("send")) : IdleSteps("send")[i][3] = text

\* C14: in final mode with fallback disabled, an idle event causes a send only
\* if the entry it finds is final with non-blank text; with a non-final or
\* missing entry nothing is sent and the backend is not queried.
C14_FinalWithoutFallbackSkipsNonFinal ==
    (relay.mode = "final" /\ ~relay.fallback) =>
        /\ (IdleSteps("send") # <<>> => FoundFinal)
        /\ (~FoundFinal =>
               /\ IdleSteps("send") = <<>>
               /\ IdleSteps("fetch") = <<>>
               /\ IdleSteps("lookup") = <<>>)

C14_Witness ==
    /\ relay.mode = "final" /\ ~relay.fallback
    /\ relay.handled
    /\ relay.hadEntry = Entry("draft", FALSE)
    /\ Recipients(relay.idleSid) # {}
    /\ IdleLog = <<RelayEvent("idle", relay.idleSid, "")>>

\* the last event received is the idle event: it is being handled or has been
InIdle == relay.idleSid # "" /\ (relay.pc \notin {"recv", "stopped"} \/ relay.handled)

\* the text GetLastAssistantMessage gave for the event, trimmed
Fetched == IF IdleSteps("fetch") = <<>> THEN "" ELSE IdleSteps("fetch")[1][3]

\* last mode, given the text that counts as "the most recent message.updated"
LastModeSends(recent) ==
    (relay.mode = "last" /\ InIdle) =>
        /\ relay.hadEntry.ok =>
              /\ IdleSteps("fetch") = <<>>
              /\ SentOnly(recent)
              /\ (relay.handled /\ LookedUp => SentToEach(recent))
        /\ ~relay.hadEntry.ok =>
              /\ (IdleSteps("lookup") # <<>> => IdleSteps("fetch") # <<>>)
              /\ SentOnly(Fetched)
              /\ (Fetched = "" => IdleSteps("send") = <<>>)
              /\ (relay.handled /\ LookedUp => SentToEach(Fetched))

\* C15 as stated: in last mode an idle event that finds an entry sends the text
\* of the most recent message.updated event of the session to every linked
\* (chat, user) without querying the backend; with an empty cache the fetched
\* text is sent, and nothing if that is blank.
C15_LastModeSendsMostRecentUpdate == LastModeSends(relay.lastUpdate[relay.idleSid])

\* C15, amended: the text sent is that of the most recent message.updated event
\* of the session whose text is not blank (a later update with blank text does
\* not replace it), to every (chat, user) that FindRecipientsBySession returns.
C15_LastModeSendsMostRecentNonBlankUpdate == LastModeSends(relay.lastNonBlank[relay.idleSid])

C15_Witness ==
    /\ relay.mode = "last" /\ relay.handled
    /\ relay.hadEntry.ok
    /\ relay.lastNonBlank[relay.idleSid] = "final text"
    /\ relay.lastUpdate[relay.idleSid] = "  "
    /\ Cardinality(Recipients(relay.idleSid)) = 2
    /\ Len(IdleSteps("send")) = 2
    /\ SentOnly("final text")

\* the context was cancelled while the relay waited for the fallback delay
CancelledDuringDelay ==
    /\ FirstStep("timer") # 0
    /\ FirstStep("cancel") > FirstStep("timer")
    /\ FirstStep("elapsed") \in {0} \cup {i \in 1..Len(IdleLog) : i > FirstStep("cancel")}
    /\ FirstStep("ctxdone") \in {0} \cup {i \in 1..Len(IdleLog) : i > FirstStep("cancel")}

\* C16: in final mode with fallback enabled, an idle event that finds a
\* non-final entry sends nothing before the delay has elapsed; once it has, and
\* the recipients lookup succeeded (it fails under a cancelled context), every
\* recipient gets exactly one send of the cached text; if the context is
\* cancelled during the delay nothing is sent.
C16_FallbackSendsCachedAfterDelay ==
    (relay.mode = "final" /\ relay.fallback /\ relay.hadEntry.ok /\ ~relay.hadEntry.Final) =>
        /\ FirstStep("timer") = 0 => IdleSteps("lookup") = <<>>
        /\ IdleSteps("lookup") # <<>> =>
              /\ FirstStep("elapsed") # 0
              /\ FirstStep("elapsed") < FirstStep("lookup")
        /\ IdleSteps("fetch") = <<>>
        /\ SentOnly(relay.hadEntry.Text)
        /\ (relay.handled /\ LookedUp => SentToEach(relay.hadEntry.Text))
        /\ (relay.handled /\ FirstStep("elapsed") # 0 /\ FirstStep("cancel") = 0 =>
               Len(IdleSteps("lookup")) = 1)
        /\ (CancelledDuringDelay => IdleSteps("send") = <<>>)
        /\ (FirstStep("ctxdone") # 0 => IdleSteps("lookup") = <<>>)

C16_Witness ==
    /\ relay.mode = "final" /\ relay.fallback /\ relay.handled
    /\ relay.hadEntry = Entry("draft", FALSE)
    /\ FirstStep("elapsed") # 0
    /\ Cardinality(Recipients(relay.idleSid)) = 2
    /\ SentToEach("draft")
    /\ Len(IdleSteps("send")) = 2

\* C17: in final mode an idle event that finds a final entry with non-blank
\* text is dispatched at once: no timer is created, no select on it is made, the
\* backend is not asked, and when the recipients lookup succeeds every
\* recipient gets the text of the entry.
C17_FinalEntryDispatchedImmediately ==
    (relay.mode = "final" /\ FoundFinal) =>
        /\ IdleSteps("timer") = <<>>
        /\ IdleSteps("elapsed") = <<>>
        /\ IdleSteps("ctxdone") = <<>>
        /\ IdleSteps("fetch") = <<>>
        /\ (relay.idleSid # "" /\ relay.sid = relay.idleSid => relay.pc \in {"idle", "lookup", "send"})
        /\ SentOnly(relay.hadEntry.Text)
        /\ (relay.handled /\ LookedUp => SentToEach(relay.hadEntry.Text))

C17_Witness ==
    /\ relay.mode = "final" /\ relay.fallback /\ relay.handled
    /\ relay.hadEntry = Entry("final text", TRUE)
    /\ SentToEach("final text")
    /\ Len(IdleSteps("send")) >= 1
    /\ IdleSteps("timer") = <<>>

\* C30: when the relay dispatches a text for a session, every (chat, user) row
\* that FindRecipientsBySession returned gets one SendMessage call with that
\* text, whether earlier sends failed or not, and the entry of the session is
\* deleted afterwards.
C30_DispatchSendsToAllAndDeletes ==
    (LookedUp /\ relay.handled) =>
        /\ Len(IdleSteps("send")) = Cardinality(Recipients(relay.idleSid))
        /\ \A i \in 1..Len(IdleSteps("send")) :
              /\ IdleSteps("send")[i] = IdleSteps("send")[1]
              /\ IdleSteps("send")[i][2] = ChatID
        /\ IdleSteps("delete") = <<RelayEvent("delete", relay.idleSid, "")>>
        /\ \A i \in 1..Len(IdleLog) :
              IdleLog[i][1] \in {"send", "send_failed"} => i < FirstStep("delete")
        /\ ~relay.cache[relay.idleSid].ok

\* the first of two sends failed, the second was made, the entry is gone
C30_Witness ==
    /\ LookedUp /\ relay.handled
    /\ Len(IdleSteps("send")) = 2
    /\ relay.hadEntry.ok
    /\ \E i \in 1..Len(IdleLog) :
          /\ IdleLog[i] = RelayEvent("send_failed", ChatID, "tgerr")
          /\ \E j \in (i + 1)..Len(IdleLog) : IdleLog[j][1] = "send"
    /\ ~relay.cache[relay.idleSid].ok

\* the dispatcher is in waitForAssistantResponse for the update
WaiterRuns(h) == pc[h] \in {"w_snapshot", "w_state", "w_idle", "w_ctx"}

\* the relay has called SendMessage(chat, text)
RelaySentTo(chat, text) ==
    \E i \in 1..Len(relay.log) : relay.log[i] = RelayEvent("send", chat, text)

\* the reply text reached the chat from the waiter and from the relay
BothDelivered(h, text) == Sends(h, text) # {} /\ RelaySentTo(ChatID, text)

\* C20: in a process started with RELAY_SSE_ENABLED=true the dispatcher does not
\* run the synchronous waiter for a prompt, and one assistant reply is delivered
\* to the originating chat by at most one of the relay and the waiter.
C20_RelayAndWaiterNeverCombined ==
    relay.pc # "off" =>
        \A h \in Tasks : ~WaiterRuns(h) /\ ~BothDelivered(h, "new")

----------------------------------------------------------------------------
(* Properties of the dispatcher, continued (Spec) *)

\* the acknowledgement of the prompt was attempted and failed: the closure
\* returned Telegram's error before the waiter started
AckFailed(h) ==
    /\ upd[h].kind = "prompt"
    /\ Sends(h, MsgAck) # {}
    /\ result[h] = "tgerr"
    /\ Event("action", "typing") \notin Range(log[h])

\* a send that follows the acknowledgement
SendsAfterAck(h) ==
    {i \in 1..Len(log[h]) : /\ log[h][i][1] = "send"
                             /\ \E j \in Sends(h, MsgAck) : j < i}

\* C21: if sending "Procesando solicitud..." fails after RunPrompt succeeded,
\* the dispatcher still awaits the assistant reply and forwards it, and sends no
\* backend-error message for that prompt.
C21_AckFailureDoesNotFailPrompt ==
    \A h \in Tasks :
        (pc[h] = "done" /\ AckFailed(h)) =>
            /\ \E i \in SendsAfterAck(h) : log[h][i][2] \in {"old", "new", MsgNoText}
            /\ Sends(h, UserFacingOpenCodeError("tgerr")) = {}

\* C22: when GetSessionState reports an error-like state while the waiter waits,
\* waitForAssistantResponse returns an error: no text is returned as the reply
\* from that check.
C22_ErrorStateReturnsError ==
    \A h \in Tasks : ~(pc[h] = "fn_reply" /\ loc[h].via = "error")

\* C23: every text waitForAssistantResponse returns as the reply is new relative
\* to previousSnapshot: the snapshot it comes from has a larger assistant count,
\* or its trimmed last text differs from the trimmed previous last text.
C23_ReplyIsNewText ==
    \A h \in Tasks :
        pc[h] = "fn_reply" =>
            \/ loc[h].lastSnapshot.Count > loc[h].previousSnapshot.Count
            \/ TrimSpace(loc[h].lastSnapshot.Last) # TrimSpace(loc[h].previousSnapshot.Last)

\* the side-effects of a prompt found in a history: link writes and messages
Effects(l) == {i \in 1..Len(l) : l[i][1] \in {"link", "send"}}

\* p and q are prompts on one key and p entered the queue of that key first
EarlierPrompt(p, q) ==
    /\ p # q
    /\ upd[p].kind = "prompt" /\ upd[q].kind = "prompt"
    /\ key[p] = key[q] /\ key[p] \in Keys
    /\ p \in Range(enq[key[p]]) /\ q \in Range(enq[key[p]])
    /\ IndexOf(enq[key[p]], p) < IndexOf(enq[key[p]], q)

\* C24: for two prompts of the same (chat, user), every side-effect of the
\* earlier one (link write, acknowledgement, reply, fallback or error message)
\* occurs before any side-effect of the later one: whenever the earlier prompt
\* performs a side-effect, the later one has performed none.
C24_EarlierPromptEffectsFirst ==
    [][\A p, q \in Tasks :
          (EarlierPrompt(p, q) /\ Effects(log'[p]) # Effects(log[p]))
              => Effects(log[q]) = {}]_vars

----------------------------------------------------------------------------
(* API.PollUpdates (telegram/runtime.go); SpecPoll *)

\* Number of getUpdates requests made in SpecPoll.
MaxPolls == 3

\* Largest update_id Telegram hands out in SpecPoll.
MaxUpdateID == 3

UpdateIDs == 1..MaxUpdateID

\* what getUpdates may answer: up to two updates, in any order, ids below the
\* offset included
Batches == {<<>>} \cup {<<a>> : a \in UpdateIDs} \cup {<<a, b>> : a, b \in UpdateIDs}

nonPoll == <<kqVars, bridgeVars, rp, relay, ts, stream, wait>>

\* lines 52-53: var offset int64
StartPolling ==
    [pc |-> "loop", offset |-> 0, batch |-> <<>>, done |-> FALSE, inflight |-> 0,
     requests |-> <<>>, received |-> <<>>, handed |-> <<>>]

\* lines 55-59: the select on ctx.Done() with a default case
PollLoop ==
    /\ poll.pc = "loop"
    /\ poll' = [poll EXCEPT !.pc = IF poll.done THEN "stopped" ELSE "get"]
    /\ UNCHANGED nonPoll

\* lines 61-67: getUpdates(ctx, offset) and its error
PollGetUpdates(ok, updates) ==
    /\ poll.pc = "get"
    /\ Len(poll.requests) < MaxPolls
    /\ ok \in IF poll.done THEN {FALSE} ELSE BOOLEAN
    /\ updates \in Batches
    /\ LET asked == [poll EXCEPT !.requests = Append(@, poll.offset)] IN
       poll' = IF ok THEN [asked EXCEPT !.pc = "range", !.batch = updates,
                                        !.received = @ \o updates]
               ELSE [asked EXCEPT !.pc = IF poll.done THEN "stopped" ELSE "failed"]
    /\ UNCHANGED nonPoll

\* a loop that takes the id of every update as the new offset
PollHandAnyOffset ==
    /\ poll.pc = "range"
    /\ poll.batch # <<>>
    /\ LET update == Head(poll.batch) IN
       poll' = [poll EXCEPT !.offset = update + 1,
                            !.batch = Tail(@), !.pc = "handler",
                            !.inflight = @ + 1, !.handed = Append(@, update)]
    /\ UNCHANGED nonPoll

\* lines 69-73: the next update of the batch: the offset, then handler(ctx, update)
\* is called on the goroutine of the loop
PollHand ==
    /\ poll.pc = "range"
    /\ poll.batch # <<>>
    /\ LET update == Head(poll.batch) IN
       poll' = [poll EXCEPT !.offset = IF update >= @ THEN update + 1 ELSE @,
                            !.batch = Tail(@), !.pc = "handler",
                            !.inflight = @ + 1, !.handed = Append(@, update)]
    /\ UNCHANGED nonPoll

\* line 73: handler(ctx, update) returns
PollHandlerReturns ==
    /\ poll.pc = "handler"
    /\ poll' = [poll EXCEPT !.pc = "range", !.inflight = @ - 1]
    /\ UNCHANGED nonPoll

\* line 69: the batch is exhausted
PollBatchDone ==
    /\ poll.pc = "range"
    /\ poll.batch = <<>>
    /\ poll' = [poll EXCEPT !.pc = "loop"]
    /\ UNCHANGED nonPoll

\* the root context is cancelled
PollCancel ==
    /\ poll.pc \notin {"off", "stopped", "failed"}
    /\ ~poll.done
    /\ poll' = [poll EXCEPT !.done = TRUE]
    /\ UNCHANGED nonPoll

\* SpecPoll: the polling goroutine of runServe, its handler left opaque
InitPoll ==
    /\ IdleQueue(Calls) /\ IdleBridge(Calls)
    /\ rp = NoRunPrompt
    /\ relay = NoRelay
    /\ poll = StartPolling /\ ts = NoTime /\ stream = NoStream /\ wait = NoWait

NextPoll ==
    \/ PollLoop
    \/ \E ok \in BOOLEAN, updates \in Batches : PollGetUpdates(ok, updates)
    \/ PollHand
    \/ PollHandlerReturns
    \/ PollBatchDone
    \/ PollCancel

SpecPoll == InitPoll /\ [][NextPoll]_vars

----------------------------------------------------------------------------
(* Properties of PollUpdates (SpecPoll) *)

\* C25: at most 8 handler invocations are in flight, and a handler that has not
\* returned does not stop the loop from fetching the next batch while fewer
\* than 8 are in flight: the loop is never held inside a handler call.
C25_BoundedPoolKeepsFetching ==
    poll.pc # "off" =>
        /\ poll.inflight <= 8
        /\ (poll.inflight < 8 => poll.pc # "handler")

\* the largest id in a non-empty sequence of ids
MaxOf(ids) == CHOOSE m \in Range(ids) : \A x \in Range(ids) : x <= m

\* the loop is between batches: every update received has been through the range
BetweenBatches == poll.pc \in {"loop", "get", "stopped", "failed"}

\* C29: the offset sent to getUpdates never decreases; after a batch has been
\* processed it is the largest update id seen so far plus one, so the next
\* request asks for no id already seen; every update received is handed to the
\* handler exactly once, in the order of its batch.
C29_OffsetFollowsLargestSeen ==
    poll.pc # "off" =>
        /\ \A i, j \in 1..Len(poll.requests) : i < j => poll.requests[i] <= poll.requests[j]
        /\ (poll.requests # <<>> => poll.requests[Len(poll.requests)] <= poll.offset)
        /\ (BetweenBatches =>
               /\ poll.offset = IF poll.received = <<>> THEN 0 ELSE MaxOf(poll.received) + 1
               /\ \A id \in Range(poll.received) : id < poll.offset
               /\ poll.handed = poll.received)
        /\ Len(poll.handed) <= Len(poll.received)
        /\ poll.handed \o poll.batch = poll.received

\* after a batch <<3, 1>> and a later batch the loop asks again from offset 4
C29_Witness ==
    /\ poll.pc = "get"
    /\ Len(poll.requests) = 2
    /\ Len(poll.handed) = 4
    /\ SubSeq(poll.received, 1, 2) = <<3, 1>>
    /\ poll.offset = 4

----------------------------------------------------------------------------
(* Properties of the session commands, one update at a time (SpecSeq) *)

\* "/session new" of task h has been carried out and confirmed
SessionReset(h) ==
    /\ upd[h].kind = "session_new" /\ pc[h] = "done"
    /\ \/ Sends(h, "Sesion reiniciada. Sesion default: " \o defaultSessionID) # {}
       \/ Sends(h, "Sesion reiniciada. El proximo mensaje creara una sesion nueva.") # {}

\* no other update has been handed to the dispatcher yet
OthersIdle(h) == \A q \in Tasks \ {h} : pc[q] = "idle"

\* h and q are the only updates handed to the dispatcher so far
NoOtherUpdate(h, q) == \A r \in Tasks \ {h, q} : pc[r] = "idle"

\* the calls task q made to the backend in RunPrompt
BackendCalls(q) == SelectSeq(log[q], LAMBDA e : e[1] = "backend")

Shown(h, x) ==
    /\ upd[h].kind = "session_show" /\ pc[h] = "done"
    /\ Sends(h, MsgSesionActual(x)) # {}

ShownIDs == {"ses_A", "ses_D", "(nueva en el proximo mensaje)"}

\* C27: GetSession stores what it returns: with no link and a default it upserts
\* the default and returns it; a repeated GetSession returns the same id and
\* writes nothing; with no link and no default it returns the empty id and
\* writes nothing.
C27_GetSessionWriteThroughIdempotent ==
    \A h \in Tasks : \A x \in ShownIDs :
        Shown(h, x) =>
            /\ \A i \in Writes(h) :
                  log[h][i] = Event("link", defaultSessionID) /\ x = defaultSessionID
            /\ Cardinality(Writes(h)) <= 1
            /\ (x = "(nueva en el proximo mensaje)") =>
                  /\ defaultSessionID = "" /\ Writes(h) = {}
                  /\ (OthersIdle(h) => sessionLinks[MyKey(h)] = NoLink)
            /\ (x # "(nueva en el proximo mensaje)" /\ OthersIdle(h)) =>
                  sessionLinks[MyKey(h)] = x
            /\ \A q \in Tasks \ {h} : \A y \in ShownIDs :
                  (Shown(q, y) /\ upd[q].user = upd[h].user /\ NoOtherUpdate(h, q)) =>
                      /\ x = y
                      /\ (Writes(h) = {} \/ Writes(q) = {})

\* the first "/session" stored the default, the second returned it again
C27_Witness ==
    \E h, q \in Tasks :
        /\ h # q /\ upd[h].user = upd[q].user
        /\ Shown(h, "ses_D") /\ Shown(q, "ses_D")
        /\ Writes(h) # {} /\ Writes(q) = {}
        /\ sessionLinks[MyKey(h)] = "ses_D"

----------------------------------------------------------------------------
(* Timestamps of the session list (opencode client); SpecTime *)

\* An int64 is kept as a sign and the decimal digits of its magnitude, most
\* significant first and without leading zeros (zero has no digits): the
\* thresholds of normalizeUnixMillis are powers of ten and its arithmetic moves
\* decimal digits.
Int64(neg, mag) == [neg |-> neg, mag |-> mag]

Zero == Int64(FALSE, <<>>)

\* math.MaxInt64 = 2^63 - 1 and math.MinInt64 = -2^63
MaxInt64 == Int64(FALSE, <<9,2,2,3,3,7,2,0,3,6,8,5,4,7,7,5,8,0,7>>)

MinInt64 == Int64(TRUE, <<9,2,2,3,3,7,2,0,3,6,8,5,4,7,7,5,8,0,8>>)

\* a <= b for two magnitudes
MagLeq(a, b) ==
    \/ Len(a) < Len(b)
    \/ /\ Len(a) = Len(b)
       /\ \/ a = b
          \/ \E i \in 1..Len(a) :
                /\ a[i] < b[i]
                /\ \A j \in 1..(i - 1) : a[j] = b[j]

\* the value can be held in an int64
FitsInt64(v) == MagLeq(v.mag, IF v.neg THEN MinInt64.mag ELSE MaxInt64.mag)

\* n zeros
Zeros(n) == [i \in 1..n |-> 0]

\* raw * 1000 for |raw| < 10^10, which cannot overflow; MinInt64 is the one
\* negative value whose `abs` stays negative (-abs overflows), and
\* -2^63 * 1000 = -500 * 2^64 wraps to 0
Times1000(raw) ==
    IF raw = MinInt64 \/ raw.mag = <<>>
    THEN Zero
    ELSE Int64(raw.neg, raw.mag \o Zeros(3))

\* raw / 10^n, truncated towards zero, for |raw| >= 10^n
Quo(raw, n) == Int64(raw.neg, SubSeq(raw.mag, 1, Len(raw.mag) - n))

\* a normalizeUnixMillis without the microseconds bucket
normalizeUnixMillisNoMicros(raw) ==
    LET absNeg == raw = MinInt64
        digits == Len(raw.mag)
    IN  IF absNeg \/ digits <= 10 THEN Times1000(raw)
        ELSE IF digits > 16 THEN Quo(raw, 6)
        ELSE raw

\* lines 1483-1498: abs < 10^10 is seconds, abs >= 10^16 is nanoseconds,
\* abs >= 10^13 is microseconds, anything else is taken for milliseconds
normalizeUnixMillis(raw) ==
    LET absNeg == raw = MinInt64
        digits == Len(raw.mag)
    IN  IF absNeg \/ digits <= 10 THEN Times1000(raw)
        ELSE IF digits > 16 THEN Quo(raw, 6)
        ELSE IF digits > 13 THEN Quo(raw, 3)
        ELSE raw

\* A text is the sequence of its characters.
DigitChars == <<"0", "1", "2", "3", "4", "5", "6", "7", "8", "9">>

LowerChars == <<"a", "b", "c", "d", "e", "f", "g", "h", "i", "j", "k", "l", "m",
                "n", "o", "p", "q", "r", "s", "t", "u", "v", "w", "x", "y", "z">>

UpperChars == <<"A", "B", "C", "D", "E", "F", "G", "H", "I", "J", "K", "L", "M",
                "N", "O", "P", "Q", "R", "S", "T", "U", "V", "W", "X", "Y", "Z">>

\* the two characters of the texts that are not ASCII, by their code points
Bullet == "U+2022"

MiddleDot == "U+00B7"

\* unicode.IsSpace on the characters of the model
SpaceChars == {" ", "\t", "\n"}

\* strings.ToUpper
ToUpper(t) ==
    [i \in 1..Len(t) |->
        IF \E n \in 1..26 : LowerChars[n] = t[i]
        THEN UpperChars[CHOOSE n \in 1..26 : LowerChars[n] = t[i]]
        ELSE t[i]]

\* strings.HasPrefix
HasPrefix(t, prefix) ==
    Len(prefix) <= Len(t) /\ SubSeq(t, 1, Len(prefix)) = prefix

\* where sub first occurs in t, 0 if nowhere (strings.Index, from 1)
Index(t, sub) ==
    LET at == {i \in 1..(Len(t) - Len(sub) + 1) : SubSeq(t, i, i + Len(sub) - 1) = sub}
    IN  IF at = {} THEN 0 ELSE CHOOSE i \in at : \A j \in at : i <= j

\* strings.ReplaceAll for a non-empty old
RECURSIVE ReplaceAll(_, _, _)
ReplaceAll(t, old, new) ==
    IF t = <<>> THEN <<>>
    ELSE IF HasPrefix(t, old)
    THEN new \o ReplaceAll(SubSeq(t, Len(old) + 1, Len(t)), old, new)
    ELSE <<Head(t)>> \o ReplaceAll(Tail(t), old, new)

\* strings.Fields: the maximal runs of characters that are not white space
RECURSIVE Fields(_)
Fields(t) ==
    IF t = <<>> THEN <<>>
    ELSE IF Head(t) \in SpaceChars THEN Fields(Tail(t))
    ELSE LET spaces == {i \in 1..Len(t) : t[i] \in SpaceChars}
             n == IF spaces = {} THEN Len(t)
                  ELSE (CHOOSE i \in spaces : \A j \in spaces : i <= j) - 1
         IN  <<SubSeq(t, 1, n)>> \o Fields(SubSeq(t, n + 1, Len(t)))

\* strings.Join
RECURSIVE Join(_, _)
Join(words, sep) ==
    IF words = <<>> THEN <<>>
    ELSE IF Len(words) = 1 THEN words[1]
    ELSE words[1] \o sep \o Join(Tail(words), sep)

\* lines 1466-1481: white space collapsed, bullets made middle dots with one
\* space on each side at least, upper case (left of the first dot only, if
\* there is one)
normalizeUpdatedText(value) ==
    LET joined == Join(Fields(value), <<" ">>)
        dotted == ReplaceAll(joined, <<Bullet>>, <<MiddleDot>>)
        left   == ReplaceAll(dotted, <<" ", MiddleDot>>, <<" ", MiddleDot, " ">>)
        spaced == ReplaceAll(left, <<MiddleDot, " ">>, <<" ", MiddleDot, " ">>)
        at     == Index(spaced, <<" ", MiddleDot, " ">>)
    IN  IF at > 0
        THEN ToUpper(SubSeq(spaced, 1, at - 1)) \o <<" ", MiddleDot, " ">>
                 \o SubSeq(spaced, at + 3, Len(spaced))
        ELSE ToUpper(spaced)

\* the digit a character stands for
DigitOf(c) == (CHOOSE n \in 1..10 : DigitChars[n] = c) - 1

IsDigits(t) == t # <<>> /\ \A i \in 1..Len(t) : \E n \in 1..10 : DigitChars[n] = t[i]

\* a magnitude without its leading zeros
RECURSIVE Canonical(_)
Canonical(mag) ==
    IF mag # <<>> /\ Head(mag) = 0 THEN Canonical(Tail(mag)) ELSE mag

\* the sign and the digits of a decimal numeral, whatever its size
Numeral(t) ==
    LET signed == t # <<>> /\ Head(t) \in {"+", "-"}
        body   == IF signed THEN Tail(t) ELSE t
        mag    == Canonical([i \in 1..Len(body) |-> DigitOf(body[i])])
    IN  Int64(signed /\ Head(t) = "-" /\ mag # <<>>, mag)

IsNumeral(t) ==
    IsDigits(IF t # <<>> /\ Head(t) \in {"+", "-"} THEN Tail(t) ELSE t)

\* strconv.ParseInt(trimmed, 10, 64): an optional sign and decimal digits; a
\* value out of the range of int64 is an error
ParseIntOK(t) ==
    /\ IsNumeral(t)
    /\ MagLeq(Numeral(t).mag,
              IF Head(t) = "-" THEN MinInt64.mag ELSE MaxInt64.mag)

\* the decimal text of an int64 (strconv.FormatInt)
FormatInt(v) ==
    IF v.mag = <<>> THEN <<"0">>
    ELSE (IF v.neg THEN <<"-">> ELSE <<>>) \o [i \in 1..Len(v.mag) |-> DigitChars[v.mag[i] + 1]]

\* the texts below, character by character
TextClock == <<"6", ":", "0", "3", " ", "P", "M">>

TextClockDate == <<"1", "1", ":", "1", "1", " ", "P", "M", " ", MiddleDot, " ",
                   "2", "/", "1", "5", "/", "2", "0", "2", "6">>

TextRFC3339 == <<"2", "0", "2", "6", "-", "0", "2", "-", "1", "5", "T",
                 "2", "3", ":", "1", "1", ":", "0", "0", "Z">>

TextNotADate == <<"n", "o", "t", "-", "a", "-", "d", "a", "t", "e">>

TextFraction == <<"1", "7", "3", "9", "7", "1", "4", "4", "0", "0", ".", "5">>

TextInf == <<"I", "N", "F">>

\* 2026-02-15T23:11:00Z in milliseconds
Feb15At2311 == Int64(FALSE, <<1,7,7,1,1,9,7,0,6,0,0,0,0>>)

\* time.Parse("3:04 PM", trimmed), lines 1421-1425: the time of day on the day
\* and in the zone of time.Now(); two days stand for the days there are
TodayAt(t) ==
    IF t = TextClock
    THEN {Int64(FALSE, <<1,7,7,1,1,7,8,5,8,0,0,0,0>>),
          Int64(FALSE, <<1,7,7,1,2,6,4,9,8,0,0,0,0>>)}
    ELSE {}

\* time.Parse("3:04 PM <middle dot> 1/2/2006", trimmed), lines 1426-1428; a run
\* of spaces in the value matches a space of the layout
ClockDate(t) ==
    IF Join(Fields(t), <<" ">>) = TextClockDate THEN {Feb15At2311} ELSE {}

\* strconv.ParseFloat(trimmed, 64) followed by int64(unixFloat), lines
\* 1429-1431: the integer part of a float in the range of int64; out of it the
\* conversion is implementation-specific (MinInt64 on amd64, the nearest bound
\* on arm64).  A decimal numeral too large for ParseInt comes here.
FloatToInt64(t) ==
    IF IsNumeral(t)
    THEN IF Numeral(t).neg THEN {MinInt64} ELSE {MinInt64, MaxInt64}
    ELSE IF t = TextFraction THEN {Int64(FALSE, <<1,7,3,9,7,1,4,4,0,0>>)}
    ELSE IF t = TextInf THEN {MinInt64, MaxInt64}
    ELSE {}

\* time.Parse(time.RFC3339, trimmed), lines 1432-1436
RFC3339(t) == IF t = TextRFC3339 THEN {Feb15At2311} ELSE {}

\* lines 1413-1437: the values parseTimestamp(value) may return
parseTimestamp(value) ==
    LET trimmed == normalizeUpdatedText(value)
    IN  IF trimmed = <<>> THEN {Zero}
        ELSE IF ParseIntOK(trimmed) THEN {normalizeUnixMillis(Numeral(trimmed))}
        ELSE IF TodayAt(trimmed) # {} THEN TodayAt(trimmed)
        ELSE IF ClockDate(trimmed) # {} THEN ClockDate(trimmed)
        ELSE IF FloatToInt64(trimmed) # {}
        THEN {normalizeUnixMillis(raw) : raw \in FloatToInt64(trimmed)}
        ELSE IF RFC3339(trimmed) # {} THEN RFC3339(trimmed)
        ELSE {Zero}

\* none of the parsers of parseTimestamp accepts the text
Unparsable(value) ==
    LET trimmed == normalizeUpdatedText(value)
    IN  /\ ~ParseIntOK(trimmed)
        /\ TodayAt(trimmed) = {} /\ ClockDate(trimmed) = {}
        /\ FloatToInt64(trimmed) = {} /\ RFC3339(trimmed) = {}

\* The instants of the model, in whole seconds since the epoch: around each
\* threshold of normalizeUnixMillis and around the largest int64.
InstantMags ==
    {<<>>, <<5>>, <<8,6,4,0,0>>,
     <<9,9,9,9,9,9,9>>, <<1,0,0,0,0,0,0,0>>,
     <<1,7,3,9,7,1,4,4,0,0>>,
     <<9,2,2,3,3,7,2,0,3,6>>, <<9,2,2,3,3,7,2,0,3,7>>,
     <<9,9,9,9,9,9,9,9,9,9>>, <<1,0,0,0,0,0,0,0,0,0,0>>}

Instants == {Int64(neg, mag) : neg \in BOOLEAN, mag \in InstantMags} \ {Int64(TRUE, <<>>)}

\* the units an instant is written in, with the zeros each adds to the seconds
Units == {"s", "ms", "us", "ns"}

UnitZeros(unit) ==
    CASE unit = "s" -> 0 [] unit = "ms" -> 3 [] unit = "us" -> 6 [] unit = "ns" -> 9

\* the instant counted in the unit
Spelling(instant, unit) ==
    IF instant.mag = <<>> THEN Zero
    ELSE Int64(instant.neg, instant.mag \o Zeros(UnitZeros(unit)))

\* how a numeral reaches parseTimestamp: bare, between white space, with a sign
Decorations == {"bare", "spaced", "plus"}

Decorated(t, how) ==
    CASE how = "bare" -> t
      [] how = "spaced" -> <<" ">> \o t \o <<"\n">>
      [] how = "plus" -> IF Head(t) = "-" THEN t ELSE <<"+">> \o t

\* the texts that are not numerals
OtherTexts ==
    {<<>>, <<" ", "\t">>, TextNotADate, TextClock, ToUpper(TextNotADate),
     <<"6", ":", "0", "3", " ", " ", "p", "m">>,
     TextClockDate,
     <<"1", "1", ":", "1", "1", " ", "p", "m", Bullet,
       "2", "/", "1", "5", "/", "2", "0", "2", "6">>,
     <<"1", "1", ":", "1", "1", " ", "p", "m", " ", Bullet,
       "2", "/", "1", "5", "/", "2", "0", "2", "6">>,
     TextRFC3339, TextFraction, TextInf, <<"i", "n", "f">>,
     <<"1", "7", " ", "3", "9">>, <<"-">>, <<"1", "2", "-">>, <<"6", ":", "0", "3">>}

NoResult == [none |-> TRUE]

NoResults == [unit \in {} |-> Zero]

\* one instant, about to be written in each unit
TimeOfInstant(instant) ==
    [pc |-> "instant", instant |-> instant,
     normalized |-> NoResults, parsed |-> NoResults]

\* one text, about to be parsed
TimeOfText(value) == [pc |-> "text", value |-> value, result |-> NoResult]

\* normalizeUnixMillis(raw) for the instant counted in one more unit
NormalizeSpelling(unit) ==
    /\ ts.pc = "instant"
    /\ unit \notin DOMAIN ts.normalized
    /\ FitsInt64(Spelling(ts.instant, unit))
    /\ ts' = [ts EXCEPT !.normalized =
                 @ @@ (unit :> normalizeUnixMillis(Spelling(ts.instant, unit)))]
    /\ UNCHANGED <<kqVars, bridgeVars, rp, relay, poll, stream, wait>>

\* parseTimestamp(value) for the decimal text of the instant in one more unit
ParseSpelling(unit, how) ==
    /\ ts.pc = "instant"
    /\ unit \notin DOMAIN ts.parsed
    /\ \E r \in parseTimestamp(Decorated(FormatInt(Spelling(ts.instant, unit)), how)) :
          ts' = [ts EXCEPT !.parsed = @ @@ (unit :> r)]
    /\ UNCHANGED <<kqVars, bridgeVars, rp, relay, poll, stream, wait>>

\* parseTimestamp(value) for a text that is not a numeral
ParseText ==
    /\ ts.pc = "text"
    /\ ts.result = NoResult
    /\ \E r \in parseTimestamp(ts.value) : ts' = [ts EXCEPT !.result = r]
    /\ UNCHANGED <<kqVars, bridgeVars, rp, relay, poll, stream, wait>>

InitTime ==
    /\ IdleQueue({}) /\ IdleBridge({}) /\ rp = NoRunPrompt
    /\ relay = NoRelay /\ poll = NoPoll /\ stream = NoStream /\ wait = NoWait
    /\ \/ \E instant \in Instants : ts = TimeOfInstant(instant)
       \/ \E value \in OtherTexts : ts = TimeOfText(value)

NextTime ==
    \/ \E unit \in Units : NormalizeSpelling(unit)
    \/ \E unit \in Units, how \in Decorations : ParseSpelling(unit, how)
    \/ ParseText

SpecTime == InitTime /\ [][NextTime]_vars

----------------------------------------------------------------------------
(* Properties of the timestamps (SpecTime) *)

\* the instant in milliseconds
Millis(instant) == Spelling(instant, "ms")

\* the seconds, the milliseconds, the microseconds and the nanoseconds of the
\* instant each fall in the bucket of their unit: 10^7 <= |seconds| < 10^10
\* (26 April 1970 to 20 November 2286, and as long before the epoch), or the
\* epoch itself
InBuckets(instant) == Len(instant.mag) \in {0, 8, 9, 10}

ParsedUnits == {"s", "ms", "us"}

\* a text no parser accepts, or a blank one, parses to 0
UnparsableIsZero ==
    (/\ ts.pc = "text" /\ ts.result # NoResult
     /\ Unparsable(ts.value)) => ts.result = Zero

\* C28 as stated: whatever the instant, normalizeUnixMillis gives one value for
\* its seconds, milliseconds, microseconds and nanoseconds, parseTimestamp gives
\* one value for the texts of its seconds, milliseconds and microseconds, and
\* parseTimestamp of an unparsable text is 0.
C28_ScaleIndependentForEveryInstant ==
    /\ ts.pc = "instant" =>
          /\ \A u1, u2 \in DOMAIN ts.normalized : ts.normalized[u1] = ts.normalized[u2]
          /\ \A u1, u2 \in DOMAIN ts.parsed \cap ParsedUnits : ts.parsed[u1] = ts.parsed[u2]
    /\ UnparsableIsZero

\* C28, for the instants whose spellings fall in the buckets of their units
\* (10^7 <= |seconds| < 10^10, or 0): normalizeUnixMillis gives the milliseconds
\* of the instant for its seconds, milliseconds, microseconds and (where they
\* fit an int64) nanoseconds, parseTimestamp gives the same for the texts of
\* its seconds, milliseconds and microseconds, and parseTimestamp of a text no
\* parser accepts is 0.
C28_ScaleIndependentWithinBuckets ==
    /\ (ts.pc = "instant" /\ InBuckets(ts.instant)) =>
          /\ \A unit \in DOMAIN ts.normalized : ts.normalized[unit] = Millis(ts.instant)
          /\ \A unit \in DOMAIN ts.parsed \cap ParsedUnits :
                ts.parsed[unit] = Millis(ts.instant)
    /\ UnparsableIsZero

\* 1739714400 has been normalized in its four spellings and parsed in three
C28_Witness ==
    /\ ts.pc = "instant"
    /\ ts.instant = Int64(FALSE, <<1,7,3,9,7,1,4,4,0,0>>)
    /\ DOMAIN ts.normalized = Units
    /\ ParsedUnits \subseteq DOMAIN ts.parsed
    /\ \A unit \in Units :
          ts.normalized[unit] = Int64(FALSE, <<1,7,3,9,7,1,4,4,0,0,0,0,0>>)

\* "not-a-date" has been parsed
UnparsableParsed ==
    /\ ts.pc = "text" /\ ts.value = TextNotADate /\ ts.result = Zero

----------------------------------------------------------------------------
(* Properties of the relay, continued (SpecRelay) *)

\* the event carries nothing the relay uses
Unusable(event) ==
    \/ event.SessionID = ""
    \/ event.Type \notin {"message.updated", "session.idle"}
    \/ event.Type = "message.updated" /\ TrimText(event.Text) = ""

\* C40: an event with an empty session id, an event of another type and a
\* message.updated with a blank text leave the cache as it is and start no
\* dispatch: no call is made and the relay is back in the select of Run.
C40_UnusableEventsLeaveRelayUntouched ==
    [][\A event \in RelayEvents :
          (Unusable(event) /\ RelayReceive(event)) =>
              /\ relay'.cache = relay.cache
              /\ relay'.log = relay.log
              /\ relay'.pc = "recv"]_vars

\* a blank update arrived after a draft was cached, and the draft is still there
C40_Witness ==
    /\ relay.pc = "recv"
    /\ relay.lastUpdate["ses_A"] = "  "
    /\ relay.cache["ses_A"] = Entry("draft", FALSE)

\* the positions in the log of the idle events of the session that came after
\* its last message.updated
IdlesSinceUpdate(sid) ==
    {i \in (relay.updMark[sid] + 1)..Len(relay.log) :
        relay.log[i] = RelayEvent("idle", sid, "")}

\* the idle event logged at position i made a call of SendMessage
IdleSent(i) ==
    \E j \in (i + 1)..Len(relay.log) :
        /\ relay.log[j][1] = "send"
        /\ \A k \in (i + 1)..j : relay.log[k][1] # "idle"

\* C37: in last mode, of the session.idle events of one session that follow its
\* last message.updated, at most one makes sends.
C37_SecondIdleSendsNothing ==
    (relay.pc # "off" /\ relay.mode = "last") =>
        \A sid \in RelaySessions :
            Cardinality({i \in IdlesSinceUpdate(sid) : IdleSent(i)}) <= 1

----------------------------------------------------------------------------
(* Properties of the dispatcher: model overrides, session ids, /deny (Spec) *)

\* the closure of h is at or past the acknowledgement
AtOrPastAck(h) == pc[h] \in {"fn_ack", "w_snapshot", "w_state", "w_idle", "w_ctx", "fn_reply"}

\* h sent its prompt with a model override and RunPrompt returned another session
ModelToCarry(h) ==
    /\ upd[h].kind = "prompt"
    /\ loc[h].model # ""
    /\ loc[h].newSessionID # ""
    /\ loc[h].newSessionID # loc[h].sessionID

\* h has stored an override for the session x and acknowledged its prompt
CarriedModelTo(h, x) ==
    /\ upd[h].kind = "prompt"
    /\ \E i \in 1..Len(log[h]) :
          /\ log[h][i] = Event("model", x)
          /\ \E j \in Sends(h, MsgAck) : i < j

\* C33: when a prompt went out with a model override and RunPrompt returned a
\* different session id, the override is stored for the new id when the
\* acknowledgement is sent, and the next prompt of that (chat, user) loads the
\* new session and that model before it calls RunPrompt.
C33_ModelFollowsNewSession ==
    \A h \in Tasks :
        /\ (AtOrPastAck(h) /\ ModelToCarry(h)) =>
              /\ sessionModels[loc[h].newSessionID] = loc[h].model
              /\ Event("model", loc[h].newSessionID) \in Range(log[h])
        /\ \A q \in Tasks \ {h} : \A x \in SessionIDs :
              (/\ CarriedModelTo(h, x)
               /\ upd[q].kind = "prompt" /\ upd[q].user = upd[h].user
               /\ pc[q] = "fn_runprompt"
               /\ \A r \in Tasks \ {h, q} : pc[r] = "idle") =>
                  /\ loc[q].sessionID = x
                  /\ loc[q].model = sessionModels[x]
                  /\ loc[q].model # NoModel /\ loc[q].model # ""

\* the first prompt found ses_A gone and moved its override m1 to the session
\* made in its place; the second prompt is about to call RunPrompt with it
C33_Witness ==
    \E h, q \in Tasks :
        /\ h # q
        /\ CarriedModelTo(h, FreshID(h, 2))
        /\ upd[q].kind = "prompt" /\ upd[q].user = upd[h].user
        /\ pc[q] = "fn_runprompt"
        /\ loc[q].sessionID = FreshID(h, 2)
        /\ loc[q].model = "m1"

\* the ids GetSession has returned to the tasks: to the closure of a prompt and
\* to "/session"
Returned(h) ==
    (IF loc[h].sessionID # "" THEN {loc[h].sessionID} ELSE {})
    \cup {x \in SessionIDs \cup {"bad id", "ses_", " ses_A "} : Shown(h, x)}

\* C34: every stored link holds an id matching ses_[A-Za-z0-9]+ and GetSession
\* returns no other id.
C34_LinksMatchPattern ==
    /\ \A k \in AllKeys :
          sessionLinks[k] # NoLink => MatchesSessionIDPattern(sessionLinks[k])
    /\ \A h \in Tasks : \A x \in Returned(h) : MatchesSessionIDPattern(x)

\* C36: whenever the closure calls RunPrompt, the sender of its update is allowed
\* (listed, or an admin) at that moment.
C36_RunPromptOnlyForAllowed ==
    [][\A h \in Tasks :
          (/\ pc[h] = "fn_runprompt"
           /\ \E script \in BridgeScripts(loc[h].sessionID, FreshID(h, 1), FreshID(h, 2)) :
                 FnRunPrompt(h, script))
          => IsAllowed(upd[h].user)]_vars

\* Run of task p, cancelled while its predecessor was still running, returned
\* ctx.Err() from its wait
ReturnedFromWait(p) ==
    /\ p \in cancelledWaiting
    /\ pc[p] = "returned" /\ result[p] = "canceled" /\ ~FnStarted(p)

\* C35: a call of Run whose predecessor on the key was cancelled while waiting,
\* and whose own context is never cancelled, eventually has its fn invoked.
C35_CancelledWaiterDoesNotBlock ==
    \A q \in Calls :
        [](/\ pc[q] \in {"run_select", "run_parked"}
           /\ previous[q] # Nil
           /\ ReturnedFromWait(previous[q])
           => <>(ctxDone[q] \/ FnStarted(q)))

----------------------------------------------------------------------------
(* Properties of the event stream (SpecStream) *)

\* C38: once the stream has failed with the context live and Run has returned
\* with the context still live, Run has returned the error of the stream.
C38_RunReturnsStreamError ==
    (/\ stream.run = "returned"
     /\ stream.emitted # NoErr
     /\ ~relay.done) => stream.ret = stream.emitted

\* the error is in the channel, or was handed to Run, before either channel is
\* closed
EmittedBeforeClose ==
    [][(stream.emitted = NoErr /\ stream'.emitted # NoErr)
          => /\ ~stream'.errsClosed /\ ~stream'.eventsClosed
             /\ \/ stream'.errs = <<stream'.emitted>>
                \/ stream'.woke = Woke("err", NoEvent, stream'.emitted)]_vars

\* seq is a prefix of of
IsPrefix(seq, of) ==
    /\ Len(seq) <= Len(of)
    /\ \A i \in 1..Len(seq) : seq[i] = of[i]

\* Run is inside handleEvent
Handling == relay.pc \notin {"off", "recv", "stopped"}

\* C31: Run receives the events in the order of the stream; while it handles an
\* event it receives no other, and nothing but its own dispatch changes the
\* cache: an event is received only when the sends of the event before are over,
\* and the cache stays as it is all through a fallback wait.
C31_EventsHandledOneAtATimeInOrder ==
    /\ [](IsPrefix(stream.taken, stream.produced))
    /\ [][/\ (Handling =>
               /\ stream'.taken = stream.taken
               /\ relay'.n = relay.n
               /\ \/ relay'.cache = relay.cache
                  \/ /\ relay.pc = "send" /\ relay.todo = <<>>
                     /\ relay'.cache = [relay.cache EXCEPT ![relay.sid] = NoEntry])
           /\ (relay.pc \in {"timer", "parked"} => relay'.cache = relay.cache)
           /\ (stream'.taken # stream.taken =>
                 /\ relay.pc = "recv" /\ relay.todo = <<>>
                 /\ stream'.taken = Append(stream.taken,
                                           stream.produced[Len(stream.taken) + 1]))]_vars

\* the fallback wait of an idle notice is on while the next message.updated of
\* the stream waits to be received
C31_Witness ==
    /\ relay.pc = "parked"
    /\ stream.pc = "offer"
    /\ stream.offered.Type = "message.updated"
    /\ stream.taken # <<>>

----------------------------------------------------------------------------
(* Properties of waitForAssistantResponse (SpecWaitLive) *)

\* C39: the call returns; when the return statement finds the context cancelled
\* it returns context.Canceled and no text, when it finds the deadline exceeded
\* it returns the timeout error; and the typing goroutine ends once the call has
\* returned.
C39_WaitTerminates ==
    /\ <>(wait.pc = "returned")
    /\ <>[](wait.pc = "returned" /\ wait.typing \in {"off", "stopped"})
    /\ [](wait.ctxAtReturn = "canceled" => wait.err = "canceled" /\ wait.text = "")
    /\ [](wait.ctxAtReturn = "deadline" => wait.err = ErrWaitTimeout /\ wait.text = "")
    /\ [](wait.pc = "returned" => wait.err # "none")

\* the deadline was reached with a session that stayed busy and the typing
\* goroutine, which has pinged, has stopped
C39_Witness ==
    /\ wait.pc = "returned"
    /\ wait.ctxAtReturn = "deadline"
    /\ ~wait.parent
    /\ wait.typing = "stopped"
    /\ wait.pinged

----------------------------------------------------------------------------
(* Properties of the locks (SpecLocks) *)

\* the task is inside a repository call, a backend call, a Telegram call, the
\* wait of the serializer or a timer wait
Blocked(h) ==
    \/ InFn(h)
    \/ pc[h] \in {"hu_auth", "hu_deny", "run_select", "run_parked", "returned"}

\* the goroutine of Run is inside the backend fetch, the recipients lookup, a
\* Telegram send or the fallback wait
RelayBlocked ==
    \/ relay.pc \in {"fetch", "lookup", "timer", "parked"}
    \/ relay.pc = "send" /\ relay.todo # <<>>

=============================================================================
